---- MODULE Spec2Model ----
(***************************************************************************)
(* FineDeal product matching: the popup's comparison (startComparison),   *)
(* the primary matcher (SmartMatcher), the legacy matcher (ProductMatcher) *)
(* with its similar-product finder, and the two deduplicators.             *)
(*                                                                         *)
(* Strings are TLA+ strings; JavaScript string and RegExp operations are   *)
(* modelled character by character.  Scores that are floating point in     *)
(* the source are exact rationals [n, d] here.                             *)
(***************************************************************************)
EXTENDS Integers, Sequences, FiniteSets, TLC

(***************************************************************************)
(* Every operator of the program that uses other operators is applied      *)
(* through Apply, so that TLC analyses each definition once: name(args)    *)
(* stands for nameImpl(args), the translation of the source's function.    *)
(***************************************************************************)
RECURSIVE Apply(_, _)

LowerChar(c) == Apply("LowerChar", <<c>>)

UpperChar(c) == Apply("UpperChar", <<c>>)

ToLowerCase(s) == Apply("ToLowerCase", <<s>>)

Trim(s) == Apply("Trim", <<s>>)

ParseInt(s) == Apply("ParseInt", <<s>>)

IsWordAt(s, i) == Apply("IsWordAt", <<s, i>>)

MatchEnds(re, s, minLen) == Apply("MatchEnds", <<re, s, minLen>>)

ReSearch(re, s) == Apply("ReSearch", <<re, s>>)

ReTest(re, s) == Apply("ReTest", <<re, s>>)

ReMatchText(re, s) == Apply("ReMatchText", <<re, s>>)

ScanStops(ends) == Apply("ScanStops", <<ends>>)

MatchStarts(ends) == Apply("MatchStarts", <<ends>>)

ReReplace(s, ends, rep) == Apply("ReReplace", <<s, ends, rep>>)

ReplaceAll(re, s, rep) == Apply("ReplaceAll", <<re, s, rep>>)

ReplaceAllI(re, s, rep) == Apply("ReplaceAllI", <<re, s, rep>>)

SplitAt(s, ends) == Apply("SplitAt", <<s, ends>>)

MatchesOf(s, ends) == Apply("MatchesOf", <<s, ends>>)

SplitWs(s) == Apply("SplitWs", <<s>>)

DigitRuns(s) == Apply("DigitRuns", <<s>>)

normalizeBrand(brand) == Apply("normalizeBrand", <<brand>>)

brandsMatch(brand1, brand2) == Apply("brandsMatch", <<brand1, brand2>>)

extractModel(title) == Apply("extractModel", <<title>>)

ToUpperCase(s) == Apply("ToUpperCase", <<s>>)

extractStorage(title) == Apply("extractStorage", <<title>>)

extractRAM(title) == Apply("extractRAM", <<title>>)

extractColor(title) == Apply("extractColor", <<title>>)

QAdd(a, b) == Apply("QAdd", <<a, b>>)

QMul(a, b) == Apply("QMul", <<a, b>>)

smartDetectCategory(product) == Apply("smartDetectCategory", <<product>>)

filterByCategory(source, sourceCategory, candidates) == Apply("filterByCategory", <<source, sourceCategory, candidates>>)

smartTokenize(text) == Apply("smartTokenize", <<text>>)

generateNGrams(tokens, n) == Apply("generateNGrams", <<tokens, n>>)

extractFeatures(product) == Apply("extractFeatures", <<product>>)

scoreBrand(brand1, brand2) == Apply("scoreBrand", <<brand1, brand2>>)

calculateTokenOverlap(tokens1, tokens2) == Apply("calculateTokenOverlap", <<tokens1, tokens2>>)

LevRow(str1, c2, prev, i) == Apply("LevRow", <<str1, c2, prev, i>>)

levenshteinDistance(str1, str2) == Apply("levenshteinDistance", <<str1, str2>>)

stringSimilarity(str1, str2) == Apply("stringSimilarity", <<str1, str2>>)

cleanModel(model) == Apply("cleanModel", <<model>>)

scoreModel(model1, model2, tokens1, tokens2) == Apply("scoreModel", <<model1, model2, tokens1, tokens2>>)

scoreSpecs(source, candidate) == Apply("scoreSpecs", <<source, candidate>>)

scoreTitleSimilarity(tokens1, tokens2, bigrams1, bigrams2) == Apply("scoreTitleSimilarity", <<tokens1, tokens2, bigrams1, bigrams2>>)

scoreCategory(cat1, cat2) == Apply("scoreCategory", <<cat1, cat2>>)

calculateScore(source, candidate, sourceProduct, candidateProduct) == Apply("calculateScore", <<source, candidate, sourceProduct, candidateProduct>>)

getMatchLevel(score) == Apply("getMatchLevel", <<score>>)

getMatchBadge(score) == Apply("getMatchBadge", <<score>>)

smartResult(candidate, scoring) == Apply("smartResult", <<candidate, scoring>>)

scoreCandidates(sourceProduct, sourceFeatures, categoryFiltered) == Apply("scoreCandidates", <<sourceProduct, sourceFeatures, categoryFiltered>>)

categoryFilteredOf(sourceProduct, candidates) == Apply("categoryFilteredOf", <<sourceProduct, candidates>>)

scoreAll(sourceProduct, candidates) == Apply("scoreAll", <<sourceProduct, candidates>>)

sortAndSlice(scoredMatches) == Apply("sortAndSlice", <<scoredMatches>>)

selectMatches(scored) == Apply("selectMatches", <<scored>>)

smartFindMatches(sourceProduct, candidates) == Apply("smartFindMatches", <<sourceProduct, candidates>>)

isAccessory(title) == Apply("isAccessory", <<title>>)

filterAccessories(source, candidates) == Apply("filterAccessories", <<source, candidates>>)

extractAttributes(product) == Apply("extractAttributes", <<product>>)

compareBrands(attr1, attr2) == Apply("compareBrands", <<attr1, attr2>>)

compareModels(model1, model2) == Apply("compareModels", <<model1, model2>>)

legacyTokenize(text) == Apply("legacyTokenize", <<text>>)

calculateTextSimilarity(text1, text2) == Apply("calculateTextSimilarity", <<text1, text2>>)

hasCommonKeywords(title1, title2) == Apply("hasCommonKeywords", <<title1, title2>>)

brandModelStorageRound(sourceAttrs, candidate) == Apply("brandModelStorageRound", <<sourceAttrs, candidate>>)

findBrandModelStorageMatches(source, sourceAttrs, candidates) == Apply("findBrandModelStorageMatches", <<source, sourceAttrs, candidates>>)

brandModelRound(source, sourceAttrs, candidate) == Apply("brandModelRound", <<source, sourceAttrs, candidate>>)

findBrandModelMatches(source, sourceAttrs, candidates) == Apply("findBrandModelMatches", <<source, sourceAttrs, candidates>>)

fuzzyRound(source, sourceAttrs, candidate) == Apply("fuzzyRound", <<source, sourceAttrs, candidate>>)

findFuzzyMatches(source, sourceAttrs, candidates) == Apply("findFuzzyMatches", <<source, sourceAttrs, candidates>>)

sortAndLimit(matches) == Apply("sortAndLimit", <<matches>>)

legacyFindMatches(sourceProduct, candidates) == Apply("legacyFindMatches", <<sourceProduct, candidates>>)

similarConfidence(sourceProduct, candidate) == Apply("similarConfidence", <<sourceProduct, candidate>>)

similarRound(sourceProduct, candidate) == Apply("similarRound", <<sourceProduct, candidate>>)

findSimilarProducts(sourceProduct, candidates) == Apply("findSimilarProducts", <<sourceProduct, candidates>>)

parsePrice(priceText) == Apply("parsePrice", <<priceText>>)

extractBrand(title) == Apply("extractBrand", <<title>>)

detectCategory(title) == Apply("detectCategory", <<title>>)

extractProductInfo(site, title, priceText, productId, brandText) == Apply("extractProductInfo", <<site, title, priceText, productId, brandText>>)

scrapedProduct(site, title, priceText, productId) == Apply("scrapedProduct", <<site, title, priceText, productId>>)

scrapeAccepts(title, priceText) == Apply("scrapeAccepts", <<title, priceText>>)

StrLess(a, b) == Apply("StrLess", <<a, b>>)

StripWord(text, word, trimEach) == Apply("StripWord", <<text, word, trimEach>>)

StripWords(text, words, trimEach) == Apply("StripWords", <<text, words, trimEach>>)

CollapseSpaces(s) == Apply("CollapseSpaces", <<s>>)

normalizeProductKey(product) == Apply("normalizeProductKey", <<product>>)

CheapestByPriceText(group) == Apply("CheapestByPriceText", <<group>>)

deduplicateSiteProducts(products) == Apply("deduplicateSiteProducts", <<products>>)

deduplicateProducts(products) == Apply("deduplicateProducts", <<products>>)

variantKey(match) == Apply("variantKey", <<match>>)

deduplicateColorVariants(matches) == Apply("deduplicateColorVariants", <<matches>>)

scrapeSearchResults(site, containers) == Apply("scrapeSearchResults", <<site, containers>>)

scrapePage(texts) == Apply("scrapePage", <<texts>>)

(***************************************************************************)
(* JavaScript string primitives                                            *)
(***************************************************************************)
Digits == {"0", "1", "2", "3", "4", "5", "6", "7", "8", "9"}

LowerLetters ==
  {"a", "b", "c", "d", "e", "f", "g", "h", "i", "j", "k", "l", "m",
   "n", "o", "p", "q", "r", "s", "t", "u", "v", "w", "x", "y", "z"}

UpperLetters ==
  {"A", "B", "C", "D", "E", "F", "G", "H", "I", "J", "K", "L", "M",
   "N", "O", "P", "Q", "R", "S", "T", "U", "V", "W", "X", "Y", "Z"}

\* \w of a JavaScript RegExp
WordChars == Digits \cup LowerLetters \cup UpperLetters \cup {"_"}

\* \s of a JavaScript RegExp (the whitespace the titles can carry)
SpaceChars == {" "}

LowerOf ==
  ("A" :> "a") @@ ("B" :> "b") @@ ("C" :> "c") @@ ("D" :> "d") @@
  ("E" :> "e") @@ ("F" :> "f") @@ ("G" :> "g") @@ ("H" :> "h") @@
  ("I" :> "i") @@ ("J" :> "j") @@ ("K" :> "k") @@ ("L" :> "l") @@
  ("M" :> "m") @@ ("N" :> "n") @@ ("O" :> "o") @@ ("P" :> "p") @@
  ("Q" :> "q") @@ ("R" :> "r") @@ ("S" :> "s") @@ ("T" :> "t") @@
  ("U" :> "u") @@ ("V" :> "v") @@ ("W" :> "w") @@ ("X" :> "x") @@
  ("Y" :> "y") @@ ("Z" :> "z")

UpperOf ==
  ("a" :> "A") @@ ("b" :> "B") @@ ("c" :> "C") @@ ("d" :> "D") @@
  ("e" :> "E") @@ ("f" :> "F") @@ ("g" :> "G") @@ ("h" :> "H") @@
  ("i" :> "I") @@ ("j" :> "J") @@ ("k" :> "K") @@ ("l" :> "L") @@
  ("m" :> "M") @@ ("n" :> "N") @@ ("o" :> "O") @@ ("p" :> "P") @@
  ("q" :> "Q") @@ ("r" :> "R") @@ ("s" :> "S") @@ ("t" :> "T") @@
  ("u" :> "U") @@ ("v" :> "V") @@ ("w" :> "W") @@ ("x" :> "X") @@
  ("y" :> "Y") @@ ("z" :> "Z")

DigitValue ==
  ("0" :> 0) @@ ("1" :> 1) @@ ("2" :> 2) @@ ("3" :> 3) @@ ("4" :> 4) @@
  ("5" :> 5) @@ ("6" :> 6) @@ ("7" :> 7) @@ ("8" :> 8) @@ ("9" :> 9)

\* s.charAt(i - 1): positions are 1-based here
CharAt(s, i) == SubSeq(s, i, i)

LowerCharImpl(c) == IF c \in UpperLetters THEN LowerOf[c] ELSE c

\* String.prototype.toUpperCase on one character: the sharp s has no single
\* capital and becomes two letters
UpperCharImpl(c) ==
  IF c \in LowerLetters THEN UpperOf[c]
  ELSE IF c = "ß" THEN "SS"
  ELSE c

\* the characters lo..hi of s in lower case (the range is halved so that
\* the evaluation stays shallow on long titles)
RECURSIVE LowerRange(_, _, _)
LowerRange(s, lo, hi) ==
  IF lo > hi THEN ""
  ELSE IF lo = hi THEN LowerChar(CharAt(s, lo))
  ELSE LET mid == (lo + hi) \div 2
       IN LowerRange(s, lo, mid) \o LowerRange(s, mid + 1, hi)

\* String.prototype.toLowerCase
ToLowerCaseImpl(s) == IF s = "" THEN "" ELSE LowerRange(s, 1, Len(s))

\* s.slice(i - 1)
SliceFrom(s, i) == SubSeq(s, i, Len(s))

\* String.prototype.includes
Includes(s, t) ==
  \E i \in 1..(Len(s) - Len(t) + 1) : SubSeq(s, i, i + Len(t) - 1) = t

\* the end of the longest run of characters of class c that starts at i
RunEnd(c, s, i) ==
  CHOOSE j \in i..(Len(s) + 1) :
    /\ j = Len(s) + 1 \/ CharAt(s, j) \notin c
    /\ \A k \in i..(j - 1) : CharAt(s, k) \in c

\* a list with its elements evaluated once (an array held in a variable)
AsArray(seq) == seq \o <<>>

\* pieces[lo] \o ... \o pieces[hi]
RECURSIVE ConcatRange(_, _, _)
ConcatRange(pieces, lo, hi) ==
  IF lo > hi THEN ""
  ELSE IF lo = hi THEN pieces[lo]
  ELSE LET mid == (lo + hi) \div 2
       IN ConcatRange(pieces, lo, mid) \o ConcatRange(pieces, mid + 1, hi)

\* the concatenation of a list of strings
Concat(pieces) ==
  LET all == AsArray(pieces)
  IN IF all = <<>> THEN "" ELSE ConcatRange(all, 1, Len(all))

TrimStart(s) == SliceFrom(s, RunEnd(SpaceChars, s, 1))

TrimEnd(s) ==
  LET kept == {j \in 1..Len(s) : CharAt(s, j) \notin SpaceChars}
  IN IF kept = {} THEN ""
     ELSE SubSeq(s, 1, CHOOSE j \in kept : \A k \in kept : k <= j)

\* String.prototype.trim
TrimImpl(s) == TrimEnd(TrimStart(s))

RECURSIVE ParseIntFrom(_, _, _)
ParseIntFrom(s, i, acc) ==
  IF i <= Len(s) /\ CharAt(s, i) \in Digits
    THEN ParseIntFrom(s, i + 1, 10 * acc + DigitValue[CharAt(s, i)])
    ELSE acc

\* parseInt on a string that starts with a digit ("256GB" -> 256)
ParseIntImpl(s) == ParseIntFrom(s, 1, 0)

\* Array.prototype.join
Join(words, sep) ==
  Concat([i \in DOMAIN words |-> IF i = 1 THEN words[i] ELSE sep \o words[i]])

\* lists[lo] \o ... \o lists[hi]
RECURSIVE FlatRange(_, _, _)
FlatRange(lists, lo, hi) ==
  IF lo > hi THEN <<>>
  ELSE IF lo = hi THEN lists[lo]
  ELSE LET mid == (lo + hi) \div 2
       IN FlatRange(lists, lo, mid) \o FlatRange(lists, mid + 1, hi)

\* the results a loop pushes, in order: each round gives <<result>> or <<>>
Pushed(rounds) ==
  LET all == AsArray(rounds)
  IN IF all = <<>> THEN <<>> ELSE FlatRange(all, 1, Len(all))

\* the elements of a sequence as a set (new Set(array))
SetOf(seq) == {seq[i] : i \in DOMAIN seq}

\* Array.prototype.slice(0, n)
Take(seq, n) == SubSeq(seq, 1, IF Len(seq) < n THEN Len(seq) ELSE n)

Min2(a, b) == IF a < b THEN a ELSE b

Max2(a, b) == IF a > b THEN a ELSE b

(***************************************************************************)
(* A backtracking matcher for the JavaScript regular expressions of the    *)
(* source.  A pattern is a tree; ReMatch gives the end positions of the    *)
(* matches that start at position i, in the order in which a backtracking  *)
(* engine tries them (greedy quantifiers, alternatives left to right), so  *)
(* the head of the list is the match the engine reports.  Patterns with    *)
(* the i flag are written in lower case and run on the lowered subject.    *)
(***************************************************************************)
Lit(s) == [t |-> "lit", s |-> s]

Cls(c) == [t |-> "cls", c |-> c]

\* [^...]
NCls(c) == [t |-> "ncls", c |-> c]

Cat(a) == [t |-> "cat", a |-> a]

Alt(a) == [t |-> "alt", a |-> a]

Opt(r) == [t |-> "opt", r |-> r]

\* r* for a character class r, the only repetitions the source's patterns have
Star(r) == [t |-> "star", r |-> r]

Plus(r) == Cat(<<r, Star(r)>>)

\* r{lo,hi}
Rep(r, lo, hi) ==
  Cat([k \in 1..hi |-> IF k <= lo THEN r ELSE Opt(r)])

\* \b
WB == [t |-> "wb"]

\* the alternation of literal words (a|b|c)
Words(ws) == Alt([k \in DOMAIN ws |-> Lit(ws[k])])

IsWordAtImpl(s, i) == i >= 1 /\ i <= Len(s) /\ CharAt(s, i) \in WordChars

\* [c]* at i: the longest run first, then every shorter one (greedy)
ReStar(c, s, i) ==
  LET e == RunEnd(c, s, i) IN [k \in 1..(e - i + 1) |-> e - k + 1]

RECURSIVE ReMatch(_, _, _)
RECURSIVE ReCat(_, _, _, _)
RECURSIVE ReCatEach(_, _, _, _, _)
RECURSIVE ReAlt(_, _, _, _)

ReMatch(re, s, i) ==
  CASE re.t = "lit" ->
         IF i + Len(re.s) - 1 <= Len(s) /\ SubSeq(s, i, i + Len(re.s) - 1) = re.s
           THEN <<i + Len(re.s)>> ELSE <<>>
    [] re.t = "cls" ->
         IF i <= Len(s) /\ CharAt(s, i) \in re.c THEN <<i + 1>> ELSE <<>>
    [] re.t = "ncls" ->
         IF i <= Len(s) /\ CharAt(s, i) \notin re.c THEN <<i + 1>> ELSE <<>>
    [] re.t = "wb" ->
         IF IsWordAt(s, i - 1) # IsWordAt(s, i) THEN <<i>> ELSE <<>>
    [] re.t = "cat" -> ReCat(re.a, 1, s, i)
    [] re.t = "alt" -> ReAlt(re.a, 1, s, i)
    [] re.t = "opt" -> ReMatch(re.r, s, i) \o <<i>>
    [] re.t = "star" -> ReStar(re.r.c, s, i)

ReCat(nodes, k, s, i) ==
  IF k > Len(nodes) THEN <<i>>
  ELSE ReCatEach(nodes, k, s, ReMatch(nodes[k], s, i), 1)

ReCatEach(nodes, k, s, ends, n) ==
  IF n > Len(ends) THEN <<>>
  ELSE ReCat(nodes, k + 1, s, ends[n]) \o ReCatEach(nodes, k, s, ends, n + 1)

ReAlt(nodes, k, s, i) ==
  IF k > Len(nodes) THEN <<>>
  ELSE ReMatch(nodes[k], s, i) \o ReAlt(nodes, k + 1, s, i)

\* for every start position of s, the end (exclusive) of the match the
\* engine reports there when it has at least minLen characters, else 0
MatchEndsImpl(re, s, minLen) ==
  AsArray([j \in 1..(Len(s) + 1) |->
             LET ends == ReMatch(re, s, j)
             IN IF ends # <<>> /\ Head(ends) >= j + minLen THEN Head(ends) ELSE 0])

\* there is no match at all
NoMatch(ends) == \A j \in DOMAIN ends : ends[j] = 0

\* the least start position >= i that has a match, or 0
NextHit(ends, i) ==
  LET hits == {j \in i..Len(ends) : ends[j] # 0}
  IN IF hits = {} THEN 0 ELSE CHOOSE j \in hits : \A k \in hits : j <= k

\* the leftmost match of re in s: <<start, end>> (end exclusive), or <<>>
ReSearchImpl(re, s) ==
  LET ends == MatchEnds(re, s, 0)
      j == NextHit(ends, 1)
  IN IF j = 0 THEN <<>> ELSE <<j, ends[j]>>

\* RegExp.prototype.test
ReTestImpl(re, s) == ReSearch(re, s) # <<>>

\* s.match(re)[0] for a pattern with the i flag (the text keeps its case),
\* "" when there is no match
ReMatchTextImpl(re, s) ==
  LET m == ReSearch(re, ToLowerCase(s))
  IN IF m = <<>> THEN "" ELSE SubSeq(s, m[1], m[2] - 1)

\* the position a global scan moves to from position i: past the match that
\* starts at i, or one character on when there is none
ScanNext(ends, i) ==
  IF i >= Len(ends) THEN Len(ends)
  ELSE IF ends[i] # 0 THEN ends[i] ELSE i + 1

\* the position after 2^k moves
RECURSIVE ScanHop(_, _, _)
ScanHop(ends, k, i) ==
  IF i >= Len(ends) THEN Len(ends)
  ELSE IF k = 0 THEN ScanNext(ends, i)
  ELSE ScanHop(ends, k - 1, ScanHop(ends, k - 1, i))

\* the positions of the first 2^k moves from i on
RECURSIVE ScanVisits(_, _, _)
ScanVisits(ends, k, i) ==
  IF k = 0 THEN {i}
  ELSE ScanVisits(ends, k - 1, i) \cup ScanVisits(ends, k - 1, ScanHop(ends, k - 1, i))

\* the least k with 2^k >= n
Log2Up(n) == CHOOSE k \in 0..n : 2^k >= n /\ \A j \in 0..(k - 1) : 2^j < n

\* the positions a global scan of the subject stops at, from the first on
ScanStopsImpl(ends) == ScanVisits(ends, Log2Up(Len(ends)), 1)

\* the starts of the matches a global scan finds (leftmost, not overlapping)
MatchStartsImpl(ends) == {j \in ScanStops(ends) : j < Len(ends) /\ ends[j] # 0}

\* the elements of a set of numbers in ascending order
Ascending(S) ==
  [k \in 1..Cardinality(S) |->
     CHOOSE x \in S : Cardinality({y \in S : y < x}) = k - 1]

\* the text of s with every match replaced by rep
ReReplaceImpl(s, ends, rep) ==
  LET stops == ScanStops(ends)
      piece(j) == IF j \notin stops THEN ""
                  ELSE IF ends[j] # 0 THEN rep ELSE CharAt(s, j)
  IN Concat([j \in 1..Len(s) |-> piece(j)])

\* s.replace(/re/g, rep)
ReplaceAllImpl(re, s, rep) ==
  IF s = "" THEN ""
  ELSE LET ends == MatchEnds(re, s, 1)
       IN IF NoMatch(ends) THEN s ELSE ReReplace(s, ends, rep)

\* s.replace(/re/gi, rep)
ReplaceAllIImpl(re, s, rep) ==
  IF s = "" THEN ""
  ELSE LET ends == MatchEnds(re, ToLowerCase(s), 1)
       IN IF NoMatch(ends) THEN s ELSE ReReplace(s, ends, rep)

\* s.split(re): the pieces of s between the matches
SplitAtImpl(s, ends) ==
  LET starts == Ascending(MatchStarts(ends))
      n == Len(starts)
  IN [k \in 1..(n + 1) |->
        SubSeq(s, IF k = 1 THEN 1 ELSE ends[starts[k - 1]],
                  IF k = n + 1 THEN Len(s) ELSE starts[k] - 1)]

\* s.match(/re/g): the matched texts
MatchesOfImpl(s, ends) ==
  LET starts == Ascending(MatchStarts(ends))
  IN [k \in 1..Len(starts) |-> SubSeq(s, starts[k], ends[starts[k]] - 1)]

\* s.split(/\s+/)
SplitWsImpl(s) ==
  IF s = "" THEN <<"">>
  ELSE LET ends == MatchEnds(Plus(Cls(SpaceChars)), s, 1)
       IN IF NoMatch(ends) THEN <<s>> ELSE AsArray(SplitAt(s, ends))

\* all matches of /\d+/g in s
DigitRunsImpl(s) ==
  IF s = "" THEN <<>>
  ELSE LET ends == MatchEnds(Plus(Cls(Digits)), s, 1)
       IN IF NoMatch(ends) THEN <<>> ELSE AsArray(MatchesOf(s, ends))

\* \s+ , \s* , \d+ as used by the patterns of the source
Ws1 == Plus(Cls(SpaceChars))

Ws0 == Star(Cls(SpaceChars))

Num1 == Plus(Cls(Digits))

Az == Cls(LowerLetters)

W1 == Plus(Cls(WordChars))

(***************************************************************************)
(* utils/brand-normalization.ts                                            *)
(***************************************************************************)
\* the entries of BRAND_ALIASES in source order: <<canonical, aliases>>
BRAND_ALIASES ==
  << <<"Apple", <<"iphone", "ipad", "macbook", "airpods", "apple">> >>,
     <<"Samsung", <<"samsung", "galaxy">> >>,
     <<"Xiaomi", <<"xiaomi", "mi", "redmi", "poco">> >>,
     <<"OnePlus", <<"oneplus", "one plus">> >>,
     <<"Realme", <<"realme", "real me">> >>,
     <<"Oppo", <<"oppo">> >>,
     <<"Vivo", <<"vivo">> >>,
     <<"Google", <<"google", "pixel">> >>,
     <<"HP", <<"hp", "hewlett-packard", "hewlett packard">> >>,
     <<"Dell", <<"dell">> >>,
     <<"Lenovo", <<"lenovo">> >>,
     <<"Asus", <<"asus">> >>,
     <<"Acer", <<"acer">> >>,
     <<"MSI", <<"msi">> >>,
     <<"Sony", <<"sony">> >>,
     <<"LG", <<"lg">> >>,
     <<"Philips", <<"philips">> >>,
     <<"Panasonic", <<"panasonic">> >>,
     <<"Whirlpool", <<"whirlpool">> >>,
     <<"Bosch", <<"bosch">> >>,
     <<"IFB", <<"ifb">> >>,
     <<"Canon", <<"canon">> >>,
     <<"Nikon", <<"nikon">> >>,
     <<"Nike", <<"nike">> >>,
     <<"Adidas", <<"adidas">> >>,
     <<"Puma", <<"puma">> >>,
     <<"Reebok", <<"reebok">> >>,
     <<"Levis", <<"levi", "levis", "levi's">> >>,
     <<"Zara", <<"zara">> >>,
     <<"H&M", <<"h&m", "hm", "h and m">> >>,
     <<"Mango", <<"mango">> >>,
     <<"UCB", <<"ucb", "united colors of benetton", "benetton">> >>,
     <<"Allen Solly", <<"allen solly", "allensolly">> >>,
     <<"Van Heusen", <<"van heusen", "vanheusen">> >>,
     <<"Lakme", <<"lakme">> >>,
     <<"Maybelline", <<"maybelline">> >>,
     <<"L'Oreal", <<"loreal", "l'oreal", "l oreal">> >>,
     <<"MAC", <<"mac">> >>,
     <<"Revlon", <<"revlon">> >>,
     <<"Nykaa", <<"nykaa">> >>,
     <<"Mamaearth", <<"mamaearth", "mama earth">> >>,
     <<"Boat", <<"boat", "boAt">> >>,
     <<"JBL", <<"jbl">> >>,
     <<"Bose", <<"bose">> >>,
     <<"Sennheiser", <<"sennheiser">> >>,
     <<"Fastrack", <<"fastrack", "fast track">> >>,
     <<"Titan", <<"titan">> >>,
     <<"Casio", <<"casio">> >>,
     <<"Fossil", <<"fossil">> >>,
     <<"Timex", <<"timex">> >> >>

\* the index of the first entry of BRAND_ALIASES that satisfies hit, 0 if none
FirstEntry(hit(_)) ==
  LET idx == {k \in DOMAIN BRAND_ALIASES : hit(BRAND_ALIASES[k])}
  IN IF idx = {} THEN 0 ELSE CHOOSE k \in idx : \A j \in idx : k <= j

normalizeBrandImpl(brand) ==
  IF brand = "" THEN ""
  ELSE LET normalized == Trim(ToLowerCase(brand))
           isCanonical(e) == ToLowerCase(e[1]) = normalized
           hasAlias(e) == \E a \in DOMAIN e[2] : ToLowerCase(e[2][a]) = normalized
           byName == FirstEntry(isCanonical)
           byAlias == FirstEntry(hasAlias)
       IN IF byName # 0 THEN BRAND_ALIASES[byName][1]
          ELSE IF byAlias # 0 THEN BRAND_ALIASES[byAlias][1]
          ELSE UpperChar(CharAt(brand, 1)) \o ToLowerCase(SliceFrom(brand, 2))

brandsMatchImpl(brand1, brand2) ==
  IF brand1 = "" \/ brand2 = "" THEN FALSE
  ELSE ToLowerCase(normalizeBrand(brand1)) = ToLowerCase(normalizeBrand(brand2))

(***************************************************************************)
(* utils/product.ts: attribute extraction                                  *)
(***************************************************************************)
\* (?:\s+word)?
OptWord(w) == Opt(Cat(<<Ws1, Lit(w)>>))

\* the patterns of extractModel, in source order
ModelPatterns ==
  << Cat(<<Lit("iphone"), Ws0, Num1, Star(Az), OptWord("pro"), OptWord("max"),
           OptWord("plus"), OptWord("mini")>>),
     Cat(<<Lit("galaxy"), Ws1, Az, Num1, Ws0,
           Opt(Words(<<"pro", "plus", "ultra">>))>>),
     Cat(<<Lit("oneplus"), Ws1, Num1, Star(Az), OptWord("pro"), OptWord("r"),
           OptWord("t")>>),
     Cat(<<Lit("pixel"), Ws1, Num1, Star(Az), OptWord("pro"), OptWord("xl")>>),
     Cat(<<Words(<<"redmi", "mi">>), Ws1, Num1, Star(Az), OptWord("pro")>>),
     Alt(<<Cat(<<Lit("nitro"), Ws1, Opt(Cat(<<Lit("v"), Ws1>>)), Num1>>),
           Cat(<<Lit("aspire"), Ws1, Num1>>),
           Cat(<<Lit("predator"), Ws1, W1, Ws1, Num1>>),
           Cat(<<Lit("swift"), Ws1, Num1>>)>>),
     Alt(<<Cat(<<Lit("tuf"), Ws1, Az, Num1>>),
           Cat(<<Lit("rog"), Ws1, W1, Ws1, Opt(Az), Num1>>),
           Cat(<<Lit("vivobook"), Ws1, Num1>>),
           Cat(<<Lit("zenbook"), Ws1, Num1>>)>>),
     Alt(<<Cat(<<Lit("pavilion"), Ws1, Num1>>),
           Cat(<<Lit("omen"), Ws1, Num1>>),
           Cat(<<Lit("victus"), Ws1, Num1>>),
           Cat(<<Lit("envy"), Ws1, Num1>>)>>),
     Alt(<<Cat(<<Lit("xps"), Ws1, Num1>>),
           Cat(<<Lit("g"), Num1>>),
           Cat(<<Lit("inspiron"), Ws1, Num1>>),
           Cat(<<Lit("vostro"), Ws1, Num1>>),
           Cat(<<Lit("latitude"), Ws1, Num1>>)>>),
     Alt(<<Cat(<<Lit("loq"), Ws1, Num1>>),
           Cat(<<Lit("ideapad"), Ws1, Opt(Cat(<<Lit("gaming"), Ws1>>)), Num1>>),
           Cat(<<Lit("thinkpad"), Ws1, Az, Num1>>),
           Cat(<<Lit("legion"), Ws1, Num1>>)>>),
     Alt(<<Cat(<<Lit("gf"), Num1>>),
           Cat(<<Lit("katana"), Ws1, Num1>>),
           Cat(<<Lit("bravo"), Ws1, Num1>>),
           Cat(<<Lit("pulse"), Ws1, Num1>>)>>),
     Cat(<<WB, Rep(Az, 1, 3), Rep(Cls(Digits), 2, 4), Opt(Az), WB>>) >>

\* the first pattern that matches gives the model
extractModelImpl(title) ==
  LET titleLower == ToLowerCase(title)
      found == AsArray([k \in DOMAIN ModelPatterns |-> ReSearch(ModelPatterns[k], titleLower)])
      hits == {k \in DOMAIN found : found[k] # <<>>}
  IN IF hits = {} THEN ""
     ELSE LET m == found[CHOOSE k \in hits : \A j \in hits : k <= j]
          IN Trim(SubSeq(title, m[1], m[2] - 1))

\* /\b(\d+)\s*(gb|tb)\b/i
StoragePattern == Cat(<<WB, Num1, Ws0, Words(<<"gb", "tb">>), WB>>)

\* the leading digits of a match text
LeadingDigits(s) == SubSeq(s, 1, RunEnd(Digits, s, 1) - 1)

\* String.prototype.toUpperCase
ToUpperCaseImpl(s) == Concat([i \in 1..Len(s) |-> UpperChar(CharAt(s, i))])

extractStorageImpl(title) ==
  LET m == ReMatchText(StoragePattern, title)
  IN IF m = "" THEN ""
     ELSE LeadingDigits(m) \o ToUpperCase(SubSeq(m, Len(m) - 1, Len(m)))

\* /\b(\d+)\s*gb\s+ram\b/i
RamPattern == Cat(<<WB, Num1, Ws0, Lit("gb"), Ws1, Lit("ram"), WB>>)

extractRAMImpl(title) ==
  LET m == ReMatchText(RamPattern, title)
  IN IF m = "" THEN "" ELSE LeadingDigits(m) \o "GB"

ExtractColors ==
  <<"black", "white", "blue", "red", "green", "yellow", "pink", "purple",
    "gray", "grey", "silver", "gold", "rose", "titanium", "midnight",
    "starlight", "navy", "maroon", "beige", "brown", "orange">>

\* the first element of a list of words that the text includes, "" if none
FirstIncluded(words, text) ==
  LET idx == {k \in DOMAIN words : Includes(text, words[k])}
  IN IF idx = {} THEN "" ELSE words[CHOOSE k \in idx : \A j \in idx : k <= j]

\* Array.prototype.some(kw => text.includes(kw))
SomeIncluded(words, text) == \E k \in DOMAIN words : Includes(text, words[k])

extractColorImpl(title) ==
  LET color == FirstIncluded(ExtractColors, ToLowerCase(title))
  IN IF color = "" THEN ""
     ELSE UpperChar(CharAt(color, 1)) \o SliceFrom(color, 2)

(***************************************************************************)
(* Exact rationals for the scores                                          *)
(***************************************************************************)
Q(n, d) == [n |-> n, d |-> d]

QInt(k) == Q(k, 1)

RECURSIVE Gcd(_, _)
Gcd(a, b) == IF b = 0 THEN a ELSE Gcd(b, a % b)

Abs(k) == IF k < 0 THEN -k ELSE k

QNorm(q) ==
  LET g == Gcd(Abs(q.n), q.d) IN IF g = 0 THEN Q(0, 1) ELSE Q(q.n \div g, q.d \div g)

QAddImpl(a, b) == QNorm(Q(a.n * b.d + b.n * a.d, a.d * b.d))

QMulImpl(a, b) == QNorm(Q(a.n * b.n, a.d * b.d))

QLeq(a, b) == a.n * b.d <= b.n * a.d

QLess(a, b) == a.n * b.d < b.n * a.d

\* Math.min
QMin(a, b) == IF QLeq(a, b) THEN a ELSE b

\* Math.round: the nearest integer, halves up
QRound(q) == (2 * q.n + q.d) \div (2 * q.d)


(***************************************************************************)
(* A Product is a record [site, title, price, numericPrice, productId,     *)
(* brand, category]; an absent string field is "".  A MatchResult is       *)
(* the product's record extended with confidence,                          *)
(* matchLevel and matchBadge (and, from the primary matcher, scoring).     *)
(* url, image and the matchReason text are not modelled: no decision of    *)
(* the program reads them.                                                 *)
(***************************************************************************)

\* Array.prototype.sort((a, b) => b.confidence - a.confidence): stable
\* matches.sort((a, b) => b.confidence - a.confidence): Array.prototype.sort
\* is stable, so an element goes after those of higher confidence and after
\* the earlier ones of equal confidence
SortByConfidence(matches) ==
  LET before(j, i) == \/ matches[j].confidence > matches[i].confidence
                      \/ matches[j].confidence = matches[i].confidence /\ j < i
      rank(i) == Cardinality({j \in DOMAIN matches : before(j, i)}) + 1
  IN [k \in DOMAIN matches |-> matches[CHOOSE i \in DOMAIN matches : rank(i) = k]]

(***************************************************************************)
(* services/smart-matcher.ts: the primary matcher                          *)
(***************************************************************************)
SMART_MIN_CONFIDENCE == 70

MAX_RESULTS == 8

WEIGHTS == [BRAND |-> 25, MODEL |-> 30, SPECS |-> 20, TITLE |-> 15, CATEGORY |-> 10]

\* the entries of CATEGORY_KEYWORDS in source order
CATEGORY_KEYWORDS ==
  << <<"laptop", <<"laptop", "notebook", "ultrabook", "chromebook", "macbook">> >>,
     <<"phone", <<"phone", "smartphone", "mobile", "iphone", "galaxy phone">> >>,
     <<"tablet", <<"tablet", "ipad", "tab s", "surface go">> >>,
     <<"gpu", <<"graphics card", "gpu", "geforce", "radeon", "rtx", "gtx">> >>,
     <<"accessory", <<"case", "cover", "charger", "cable", "adapter", "protector",
                      "tempered glass">> >> >>

preprocessCandidates(candidates) ==
  LET valid(p) == ~(p.title = "" \/ Len(p.title) < 5) /\ ~(p.numericPrice < 10)
  IN SelectSeq(candidates, valid)

smartDetectCategoryImpl(product) ==
  LET titleLower == ToLowerCase(product.title)
      hits == {k \in DOMAIN CATEGORY_KEYWORDS :
                 SomeIncluded(CATEGORY_KEYWORDS[k][2], titleLower)}
  IN IF product.category # "" /\ Includes(product.category, "laptop") THEN "laptop"
     ELSE IF product.category # "" /\ Includes(product.category, "phone") THEN "phone"
     ELSE IF product.category # "" /\ Includes(product.category, "tablet") THEN "tablet"
     ELSE IF product.category # "" /\ Includes(product.category, "gpu") THEN "gpu"
     ELSE IF hits # {}
       THEN CATEGORY_KEYWORDS[CHOOSE k \in hits : \A j \in hits : k <= j][1]
     ELSE "unknown"

\* a category filter that lets every candidate through
filterByCategoryOff(source, sourceCategory, candidates) == candidates

filterByCategoryImpl(source, sourceCategory, candidates) ==
  LET onlyAccessories(c) == smartDetectCategory(c) = "accessory"
      sameCategory(c) ==
        LET candidateCategory == smartDetectCategory(c)
        IN IF candidateCategory = "accessory" THEN FALSE
           ELSE IF sourceCategory = "unknown" THEN TRUE
           ELSE IF candidateCategory = "unknown" THEN TRUE
           ELSE sourceCategory = candidateCategory
  IN IF sourceCategory = "accessory"
       THEN SelectSeq(candidates, onlyAccessories)
       ELSE SelectSeq(candidates, sameCategory)

SmartStopWords ==
  {"the", "a", "an", "and", "or", "but", "in", "on", "at", "to", "for", "of",
   "with", "by"}

\* /[^\w\s]/g
NotWordNotSpace == NCls(WordChars \cup SpaceChars)

smartTokenizeImpl(text) ==
  LET keep(t) == Len(t) > 1 /\ t \notin SmartStopWords
  IN SelectSeq(SplitWs(ReplaceAll(NotWordNotSpace, ToLowerCase(text), " ")), keep)

generateNGramsImpl(tokens, n) ==
  IF Len(tokens) < n THEN <<>>
  ELSE [i \in 1..(Len(tokens) - n + 1) |-> Join(SubSeq(tokens, i, i + n - 1), " ")]

\* extractFeatures without numbers and keywords, which no score reads
extractFeaturesImpl(product) ==
  LET tokens == smartTokenize(product.title)
  IN [brand |-> normalizeBrand(product.brand),
      model |-> extractModel(product.title),
      storage |-> extractStorage(product.title),
      ram |-> extractRAM(product.title),
      color |-> extractColor(product.title),
      tokens |-> tokens,
      bigrams |-> generateNGrams(tokens, 2),
      trigrams |-> generateNGrams(tokens, 3)]

scoreBrandImpl(brand1, brand2) ==
  IF brand1 = "" \/ brand2 = "" THEN QInt(0)
  ELSE IF brandsMatch(brand1, brand2) THEN QInt(WEIGHTS.BRAND)
  ELSE IF Includes(brand1, brand2) \/ Includes(brand2, brand1)
    THEN QNorm(Q(WEIGHTS.BRAND * 7, 10))
  ELSE LET words1 == SplitWs(brand1)
           words2 == SplitWs(brand2)
           common(w) == w \in SetOf(words2) /\ Len(w) > 2
       IN IF SelectSeq(words1, common) # <<>> THEN QNorm(Q(WEIGHTS.BRAND * 5, 10))
          ELSE QInt(0)

\* Jaccard similarity of two token lists, as a rational
calculateTokenOverlapImpl(tokens1, tokens2) ==
  IF Len(tokens1) = 0 \/ Len(tokens2) = 0 THEN QInt(0)
  ELSE QNorm(Q(Cardinality(SetOf(tokens1) \cap SetOf(tokens2)),
               Cardinality(SetOf(tokens1) \cup SetOf(tokens2))))

\* row i of the matrix from row i - 1 (prev); index j + 1 holds matrix[i][j].
\* matrix[i][j] is matrix[i-1][j-1] where the characters agree, else one
\* more than the least of its three neighbours; the dependence on the left
\* neighbour is unrolled back to the last column that does not use it
LevRowImpl(str1, c2, prev, i) ==
  LET same == {j \in 1..Len(str1) : c2 = CharAt(str1, j)}
      \* own[j + 1]: the value of column j without its left neighbour
      own == AsArray([n \in 1..(Len(str1) + 1) |->
                        IF n = 1 THEN i
                        ELSE IF (n - 1) \in same THEN prev[n - 1]
                        ELSE 1 + Min2(prev[n - 1], prev[n])])
      from(j) == LET resets == {r \in same \cup {0} : r <= j}
                 IN CHOOSE r \in resets : \A q \in resets : q <= r
      cell(j) == LET cands == {own[k + 1] + (j - k) : k \in from(j)..j}
                 IN CHOOSE v \in cands : \A w \in cands : v <= w
  IN AsArray([n \in 1..(Len(str1) + 1) |-> cell(n - 1)])

\* rows lo..hi in turn (the range is halved so that the evaluation stays shallow)
RECURSIVE LevRows(_, _, _, _, _)
LevRows(str1, str2, prev, lo, hi) ==
  IF lo > hi \/ prev = <<>> THEN prev
  ELSE IF lo = hi THEN LevRow(str1, CharAt(str2, lo), prev, lo)
  ELSE LET mid == (lo + hi) \div 2
       IN LevRows(str1, str2, LevRows(str1, str2, prev, lo, mid), mid + 1, hi)

\* a distance that compares the strings position by position
positionalDistance(str1, str2) ==
  LET shorter == Min2(Len(str1), Len(str2))
  IN Cardinality({k \in 1..shorter : CharAt(str1, k) # CharAt(str2, k)})
       + Max2(Len(str1), Len(str2)) - shorter

levenshteinDistanceImpl(str1, str2) ==
  LET last == LevRows(str1, str2, [j \in 1..(Len(str1) + 1) |-> j - 1], 1, Len(str2))
  IN last[Len(str1) + 1]

stringSimilarityImpl(str1, str2) ==
  IF str1 = str2 THEN QInt(1)
  ELSE IF Len(str1) = 0 \/ Len(str2) = 0 THEN QInt(0)
  ELSE LET longer == Max2(Len(str1), Len(str2))
       IN QNorm(Q(longer - levenshteinDistance(str1, str2), longer))

\* /[^a-z0-9]/g
NotLowerAlnum == NCls(LowerLetters \cup Digits)

cleanModelImpl(model) == ReplaceAll(NotLowerAlnum, ToLowerCase(model), "")

scoreModelImpl(model1, model2, tokens1, tokens2) ==
  IF model1 = "" \/ model2 = ""
    THEN QMul(calculateTokenOverlap(tokens1, tokens2), QInt(WEIGHTS.MODEL))
  ELSE LET clean1 == cleanModel(model1)
           clean2 == cleanModel(model2)
           similarity == stringSimilarity(clean1, clean2)
       IN IF clean1 = clean2 THEN QInt(WEIGHTS.MODEL)
          ELSE IF Includes(clean1, clean2) \/ Includes(clean2, clean1)
            THEN QNorm(Q(WEIGHTS.MODEL * 8, 10))
          ELSE IF QLess(Q(6, 10), similarity)
            THEN QMul(QInt(WEIGHTS.MODEL), similarity)
          ELSE QInt(0)

scoreSpecsImpl(source, candidate) ==
  (IF source.storage # "" /\ candidate.storage # ""
     THEN IF source.storage = candidate.storage THEN 8
          ELSE IF Abs(ParseInt(source.storage) - ParseInt(candidate.storage)) <= 128
            THEN 4 ELSE 0
     ELSE 0)
  + (IF source.ram # "" /\ candidate.ram # ""
       THEN IF source.ram = candidate.ram THEN 8
            ELSE IF Abs(ParseInt(source.ram) - ParseInt(candidate.ram)) <= 4
              THEN 4 ELSE 0
       ELSE 0)
  + (IF source.color # "" /\ candidate.color # ""
          /\ ToLowerCase(source.color) = ToLowerCase(candidate.color)
       THEN 4 ELSE 0)

\* (tokenOverlap * 0.4 + bigramOverlap * 0.6) * WEIGHTS.TITLE
scoreTitleSimilarityImpl(tokens1, tokens2, bigrams1, bigrams2) ==
  QMul(QAdd(QMul(calculateTokenOverlap(tokens1, tokens2), Q(4, 10)),
            QMul(calculateTokenOverlap(bigrams1, bigrams2), Q(6, 10))),
       QInt(WEIGHTS.TITLE))

scoreCategoryImpl(cat1, cat2) ==
  IF cat1 = "" \/ cat2 = "" THEN 5
  ELSE IF cat1 = cat2 THEN WEIGHTS.CATEGORY
  ELSE IF Includes(cat1, cat2) \/ Includes(cat2, cat1)
    THEN (WEIGHTS.CATEGORY * 7) \div 10
  ELSE 0

\* ratio = max / min, compared without dividing
scorePriceProximity(price1, price2) ==
  IF price1 = 0 \/ price2 = 0 THEN 0
  ELSE LET hi == Max2(price1, price2)
           lo == Min2(price1, price2)
       IN IF 10 * hi <= 12 * lo THEN 5
          ELSE IF 10 * hi <= 15 * lo THEN 3
          ELSE IF hi > 2 * lo THEN -2
          ELSE 0

calculateScoreImpl(source, candidate, sourceProduct, candidateProduct) ==
  LET brandScore == scoreBrand(source.brand, candidate.brand)
      modelScore == scoreModel(source.model, candidate.model,
                               source.tokens, candidate.tokens)
      specsScore == scoreSpecs(source, candidate)
      titleScore == scoreTitleSimilarity(source.tokens, candidate.tokens,
                                         source.bigrams, candidate.bigrams)
      categoryScore == scoreCategory(sourceProduct.category, candidateProduct.category)
      priceScore == scorePriceProximity(sourceProduct.numericPrice,
                                        candidateProduct.numericPrice)
  IN [brandScore |-> brandScore,
      modelScore |-> modelScore,
      specsScore |-> specsScore,
      titleScore |-> titleScore,
      categoryScore |-> categoryScore,
      priceScore |-> priceScore,
      total |-> QMin(QInt(100),
                  QAdd(QAdd(brandScore, modelScore),
                    QAdd(titleScore,
                      QInt(specsScore + categoryScore + priceScore))))]

\* levels with the EXACT threshold five points too low
getMatchLevelLoose(score) ==
  IF QLeq(QInt(85), score) THEN "EXACT"
  ELSE IF QLeq(QInt(80), score) THEN "HIGH"
  ELSE IF QLeq(QInt(70), score) THEN "MEDIUM"
  ELSE "LOW"

getMatchLevelImpl(score) ==
  IF QLeq(QInt(90), score) THEN "EXACT"
  ELSE IF QLeq(QInt(80), score) THEN "HIGH"
  ELSE IF QLeq(QInt(70), score) THEN "MEDIUM"
  ELSE "LOW"

getMatchBadgeImpl(score) ==
  IF QLeq(QInt(90), score) THEN "EXACT"
  ELSE IF QLeq(QInt(80), score) THEN "HIGH"
  ELSE IF QLeq(QInt(70), score) THEN "MEDIUM"
  ELSE "LOW"

\* the result built for one scored candidate
smartResultImpl(candidate, scoring) ==
  candidate @@ [confidence |-> QRound(scoring.total),
                matchLevel |-> getMatchLevel(scoring.total),
                matchBadge |-> getMatchBadge(scoring.total),
                scoring |-> scoring]

\* steps 1 to 5 of findMatches up to the threshold: the scoring of every
\* candidate that passed validation and the category filter
scoreCandidatesImpl(sourceProduct, sourceFeatures, categoryFiltered) ==
  AsArray([i \in DOMAIN categoryFiltered |->
             LET candidate == categoryFiltered[i]
                 scoring == calculateScore(sourceFeatures, extractFeatures(candidate),
                                           sourceProduct, candidate)
             IN smartResult(candidate, scoring)])

categoryFilteredOfImpl(sourceProduct, candidates) ==
  filterByCategory(sourceProduct, smartDetectCategory(sourceProduct),
                   preprocessCandidates(candidates))

scoreAllImpl(sourceProduct, candidates) ==
  LET categoryFiltered == categoryFilteredOf(sourceProduct, candidates)
  IN IF Len(categoryFiltered) = 0 THEN <<>>
     ELSE scoreCandidates(sourceProduct, extractFeatures(sourceProduct),
                          categoryFiltered)

\* the threshold of step 5
meetsThreshold(match) == QLeq(QInt(SMART_MIN_CONFIDENCE), match.scoring.total)

\* step 6: sort and limit
\* the limit without the sort
sliceOnly(scoredMatches) == Take(scoredMatches, MAX_RESULTS)

sortAndSliceImpl(scoredMatches) == Take(SortByConfidence(scoredMatches), MAX_RESULTS)

\* findMatches on the scorings of its candidates
selectMatchesImpl(scored) == sortAndSlice(SelectSeq(scored, meetsThreshold))

smartFindMatchesImpl(sourceProduct, candidates) ==
  selectMatches(scoreAll(sourceProduct, candidates))


(***************************************************************************)
(* services/matcher.ts: the legacy matcher and the similar-product finder  *)
(***************************************************************************)
LEGACY_MIN_CONFIDENCE == 25

LEGACY_LIMIT == 20

SIMILAR_LIMIT == 15

SIMILAR_MIN_CONFIDENCE == 30

ACCESSORY_KEYWORDS ==
  <<"case", "cover", "charger", "cable", "adapter", "holder", "stand",
    "protector", "screen guard", "tempered glass", "skin", "pouch",
    "sleeve", "bag", "strap", "band", "compatible", "accessory">>

DeviceKeywords ==
  <<"phone", "mobile", "smartphone", "laptop", "tablet", "watch", "speaker">>

isAccessoryImpl(title) == SomeIncluded(ACCESSORY_KEYWORDS, ToLowerCase(title))

\* a filter that keeps every candidate
keepAllCandidates(source, candidates) == candidates

filterAccessoriesImpl(source, candidates) ==
  LET sourceIsAccessory == isAccessory(source.title)
      keep(c) ==
        IF sourceIsAccessory THEN TRUE
        ELSE IF SomeIncluded(DeviceKeywords, ToLowerCase(c.title)) THEN TRUE
        ELSE ~isAccessory(c.title)
  IN SelectSeq(candidates, keep)

extractAttributesImpl(product) ==
  [model |-> extractModel(product.title),
   storage |-> extractStorage(product.title),
   ram |-> extractRAM(product.title),
   color |-> extractColor(product.title),
   size |-> "",
   variant |-> "",
   brand |-> normalizeBrand(product.brand)]

\* two lists of digit runs share a run of length >= 2
SharesNumber(nums1, nums2) ==
  \E k \in DOMAIN nums1 : nums1[k] \in SetOf(nums2) /\ Len(nums1[k]) >= 2

CommonBrands ==
  <<"iphone", "samsung", "galaxy", "oneplus", "xiaomi", "redmi", "mi",
    "oppo", "vivo", "realme", "pixel", "poco", "motorola", "moto",
    "nokia", "asus", "lenovo", "dell", "hp", "acer", "apple", "macbook">>

compareBrandsImpl(attr1, attr2) ==
  LET model1 == ToLowerCase(attr1.model)
      model2 == ToLowerCase(attr2.model)
  IN \/ attr1.brand # "" /\ attr2.brand # "" /\ brandsMatch(attr1.brand, attr2.brand)
     \/ /\ model1 # ""
        /\ model2 # ""
        /\ (model1 = model2 \/ Includes(model1, model2) \/ Includes(model2, model1))
     \/ \E k \in DOMAIN CommonBrands :
          Includes(model1, CommonBrands[k]) /\ Includes(model2, CommonBrands[k])
     \/ SharesNumber(DigitRuns(model1), DigitRuns(model2))

compareModelsImpl(model1, model2) ==
  IF model1 = "" \/ model2 = "" THEN FALSE
  ELSE LET clean1 == cleanModel(model1)
           clean2 == cleanModel(model2)
       IN \/ clean1 = clean2
          \/ Includes(clean1, clean2)
          \/ Includes(clean2, clean1)
          \/ SharesNumber(DigitRuns(clean1), DigitRuns(clean2))

LegacyStopWords ==
  {"the", "a", "an", "and", "or", "for", "with", "from", "to", "in", "on", "at"}

legacyTokenizeImpl(text) ==
  LET keep(w) == Len(w) > 2 /\ w \notin LegacyStopWords
  IN SelectSeq(SplitWs(ReplaceAll(NotWordNotSpace, ToLowerCase(text), " ")), keep)

\* Jaccard similarity of the two titles' token sets, as a rational
calculateTextSimilarityImpl(text1, text2) ==
  LET set1 == SetOf(legacyTokenize(text1))
      set2 == SetOf(legacyTokenize(text2))
  IN IF Cardinality(set1 \cup set2) > 0
       THEN QNorm(Q(Cardinality(set1 \cap set2), Cardinality(set1 \cup set2)))
       ELSE QInt(0)

hasCommonKeywordsImpl(title1, title2) ==
  LET keywords1 == legacyTokenize(title1)
      keywords2 == legacyTokenize(title2)
      shared(k) == k \in SetOf(keywords2)
  IN Len(SelectSeq(keywords1, shared)) >= 2

\* priceRatio >= 0.7 && priceRatio <= 1.3 with priceRatio = candidate / source
\* a price test that every candidate passes
PriceAlwaysSimilar(source, candidate) == TRUE

PriceIsSimilar(source, candidate) ==
  /\ source.numericPrice # 0
  /\ 10 * candidate.numericPrice >= 7 * source.numericPrice
  /\ 10 * candidate.numericPrice <= 13 * source.numericPrice

legacyResult(candidate, confidence, level, badge) ==
  candidate @@ [confidence |-> confidence, matchLevel |-> level, matchBadge |-> badge]

\* Level 1 comparing the wrong field
findExactIdMatchesByBrand(source, candidates) ==
  LET sameBrand(c) == c.brand = source.productId
      exact == SelectSeq(candidates, sameBrand)
  IN [k \in DOMAIN exact |-> legacyResult(exact[k], 100, "EXACT_ID", "EXACT")]

findExactIdMatches(source, candidates) ==
  LET sameId(c) == c.productId = source.productId
      exact == SelectSeq(candidates, sameId)
  IN [k \in DOMAIN exact |-> legacyResult(exact[k], 100, "EXACT_ID", "EXACT")]

\* one round of the loop of findBrandModelStorageMatches
brandModelStorageRoundImpl(sourceAttrs, candidate) ==
  LET candAttrs == extractAttributes(candidate)
  IN IF compareModels(sourceAttrs.model, candAttrs.model)
       THEN IF sourceAttrs.storage # "" /\ candAttrs.storage # ""
              THEN IF sourceAttrs.storage = candAttrs.storage
                     THEN <<legacyResult(candidate, 95, "EXACT", "EXACT")>>
                     ELSE <<legacyResult(candidate, 80, "HIGH", "HIGH")>>
              ELSE <<legacyResult(candidate, 85, "HIGH", "HIGH")>>
       ELSE <<>>

findBrandModelStorageMatchesImpl(source, sourceAttrs, candidates) ==
  IF sourceAttrs.model = "" THEN <<>>
  ELSE Pushed([i \in DOMAIN candidates |->
                 brandModelStorageRound(sourceAttrs, candidates[i])])

\* one round of the loop of findBrandModelMatches
brandModelRoundImpl(source, sourceAttrs, candidate) ==
       LET candAttrs == extractAttributes(candidate)
           brandsDoMatch == compareBrands(sourceAttrs, candAttrs)
           modelsMatch == candAttrs.model # ""
                            /\ compareModels(sourceAttrs.model, candAttrs.model)
           similarity == calculateTextSimilarity(source.title, candidate.title)
           base == Min2(84, Max2(70, QRound(QAdd(QInt(70), QMul(similarity, QInt(14))))))
           confidence == IF PriceIsSimilar(source, candidate)
                           THEN Min2(95, base + 10) ELSE base
       IN IF brandsDoMatch \/ modelsMatch
            THEN <<legacyResult(candidate, confidence, "MEDIUM", "MEDIUM")
                     @@ [similarity |-> similarity]>>
            ELSE <<>>

findBrandModelMatchesImpl(source, sourceAttrs, candidates) ==
  IF sourceAttrs.model = "" THEN <<>>
  ELSE Pushed([i \in DOMAIN candidates |->
                 brandModelRound(source, sourceAttrs, candidates[i])])

\* one round of the loop of findFuzzyMatches
fuzzyRoundImpl(source, sourceAttrs, candidate) ==
       LET candAttrs == extractAttributes(candidate)
           brandsDoMatch == compareBrands(sourceAttrs, candAttrs)
           similarity == calculateTextSimilarity(source.title, candidate.title)
           base == Min2(69, Max2(5, QRound(QAdd(QInt(5), QMul(similarity, QInt(64))))))
           confidence == IF PriceIsSimilar(source, candidate)
                           THEN Min2(80, base + 15) ELSE base
       IN IF /\ \/ QLeq(Q(15, 100), similarity)
                \/ brandsDoMatch
                \/ hasCommonKeywords(source.title, candidate.title)
             /\ confidence >= LEGACY_MIN_CONFIDENCE
            THEN <<legacyResult(candidate, confidence, "LOW", "RELATED")
                     @@ [similarity |-> similarity]>>
            ELSE <<>>

findFuzzyMatchesImpl(source, sourceAttrs, candidates) ==
  Pushed([i \in DOMAIN candidates |-> fuzzyRound(source, sourceAttrs, candidates[i])])

\* the legacy matcher's final sort without the limit
sortWithoutLimit(matches) ==
  LET confident(m) == m.confidence >= LEGACY_MIN_CONFIDENCE
  IN SortByConfidence(SelectSeq(matches, confident))

sortAndLimitImpl(matches) ==
  LET confident(m) == m.confidence >= LEGACY_MIN_CONFIDENCE
  IN Take(SortByConfidence(SelectSeq(matches, confident)), LEGACY_LIMIT)

\* Level 1 that never ends the matching
level1NeverExits(exactMatches) == FALSE

\* "if (exactMatches.length > 0)": Level 1 ends the matching
level1Exits(exactMatches) == Len(exactMatches) > 0

\* Level 2 that never ends the matching
level2NeverExits(matches) == FALSE

\* "if (matches.length >= 5)": Level 2 ends the matching
level2Exits(matches) == Len(matches) >= 5

\* a fuzzy matching that is attempted whatever was found before
needsFuzzyAlways(matches) == TRUE

\* "if (matches.length < 3)": Level 4 is attempted
needsFuzzy(matches) == Len(matches) < 3

\* a level that ran, and how many matches it found (what its log line says)
levelRun(level, found) == [level |-> level, found |-> Len(found)]

\* findMatches: the matches it returns and the levels it ran
legacyFindMatchesImpl(sourceProduct, candidates) ==
  LET valid(p) == p.numericPrice >= 10 /\ Len(p.title) >= 5
      validCandidates == SelectSeq(candidates, valid)
      filtered == filterAccessories(sourceProduct, validCandidates)
      sourceAttrs == extractAttributes(sourceProduct)
      exactMatches == findExactIdMatches(sourceProduct, filtered)
      level2 == findBrandModelStorageMatches(sourceProduct, sourceAttrs, filtered)
      level3 == findBrandModelMatches(sourceProduct, sourceAttrs, filtered)
      level4 == findFuzzyMatches(sourceProduct, sourceAttrs, filtered)
      ran1 == IF sourceProduct.productId # "" THEN <<levelRun(1, exactMatches)>> ELSE <<>>
      ran2 == ran1 \o <<levelRun(2, level2)>>
      ran3 == ran2 \o <<levelRun(3, level3)>>
      ran4 == ran3 \o <<levelRun(4, level4)>>
  IN IF Len(filtered) = 0 THEN [matches |-> <<>>, levels |-> <<>>]
     ELSE IF sourceProduct.productId # "" /\ level1Exits(exactMatches)
       THEN [matches |-> sortAndLimit(exactMatches), levels |-> ran1]
     ELSE IF level2Exits(level2)
       THEN [matches |-> sortAndLimit(level2), levels |-> ran2]
     ELSE IF needsFuzzy(level2 \o level3)
       THEN [matches |-> sortAndLimit(level2 \o level3 \o level4), levels |-> ran4]
     ELSE [matches |-> sortAndLimit(level2 \o level3), levels |-> ran3]

SimilarColors ==
  <<"black", "white", "blue", "red", "green", "yellow", "pink", "purple",
    "grey", "gray", "silver", "gold", "rose", "midnight", "starlight", "coral",
    "velvet", "ocean">>

\* /\b(black|white|...|ocean)\b/i
SimilarColorPattern == Cat(<<WB, Words(SimilarColors), WB>>)

\* /\b(shade\s*)?(\d{1,3})\b|\b(fair|light|...|natural)\b/i
ShadePattern ==
  Alt(<<Cat(<<WB, Opt(Cat(<<Lit("shade"), Ws0>>)), Rep(Cls(Digits), 1, 3), WB>>),
        Cat(<<WB, Words(<<"fair", "light", "medium", "dark", "deep", "ivory",
                          "beige", "nude", "natural">>), WB>>)>>)

TypeKeywords == <<"pro", "max", "plus", "lite", "mini", "ultra", "air", "5g", "4g">>

\* sourceBrand.split(' ')[0]
FirstPiece(s) ==
  LET spaces == {j \in 1..Len(s) : CharAt(s, j) = " "}
  IN IF spaces = {} THEN s
     ELSE SubSeq(s, 1, (CHOOSE j \in spaces : \A k \in spaces : j <= k) - 1)

\* the confidence findSimilarProducts gives to a candidate of the source's brand
similarConfidenceImpl(sourceProduct, candidate) ==
  LET sourceCategory == ToLowerCase(sourceProduct.category)
      sourceTitle == ToLowerCase(sourceProduct.title)
      sourceColor == ToLowerCase(ReMatchText(SimilarColorPattern, sourceTitle))
      sourceShade == ToLowerCase(ReMatchText(ShadePattern, sourceTitle))
      candCategory == ToLowerCase(candidate.category)
      candTitle == ToLowerCase(candidate.title)
      candColor == ToLowerCase(ReMatchText(SimilarColorPattern, candTitle))
      candShade == ToLowerCase(ReMatchText(ShadePattern, candTitle))
      sameCategory == sourceCategory # "" /\ candCategory # ""
                        /\ sourceCategory = candCategory
      fashion == /\ Includes(sourceCategory, "fashion") \/ Includes(sourceCategory, "clothing")
                 /\ sourceColor # ""
                 /\ candColor = sourceColor
      beauty == /\ Includes(sourceCategory, "beauty")
                /\ sourceShade # ""
                /\ candShade = sourceShade
      electronics ==
        /\ \/ Includes(sourceCategory, "electronics")
           \/ Includes(sourceCategory, "smartphone")
           \/ Includes(sourceCategory, "laptop")
        /\ SomeIncluded(TypeKeywords, sourceTitle)
        /\ SomeIncluded(TypeKeywords, candTitle)
        /\ FirstIncluded(TypeKeywords, sourceTitle) = FirstIncluded(TypeKeywords, candTitle)
  IN 20 + (IF sameCategory
             THEN 15 + (IF fashion THEN 20 ELSE 0) + (IF beauty THEN 25 ELSE 0)
                     + (IF electronics THEN 10 ELSE 0)
             ELSE 0)

\* one round of the loop of findSimilarProducts
similarRoundImpl(sourceProduct, candidate) ==
  LET sourceBrand == ToLowerCase(sourceProduct.brand)
      candBrand == ToLowerCase(candidate.brand)
      confidence == similarConfidence(sourceProduct, candidate)
  IN IF candBrand = "" \/ sourceBrand = ""
          \/ ~Includes(candBrand, FirstPiece(sourceBrand))
       THEN <<>>
     ELSE IF confidence >= SIMILAR_MIN_CONFIDENCE
       THEN <<legacyResult(candidate, confidence, "SIMILAR", "SIMILAR")>>
     ELSE <<>>

findSimilarProductsImpl(sourceProduct, candidates) ==
  Take(SortByConfidence(Pushed([i \in DOMAIN candidates |->
                                  similarRound(sourceProduct, candidates[i])])),
       SIMILAR_LIMIT)


(***************************************************************************)
(* utils/product.ts and the content script: how a Product is scraped       *)
(***************************************************************************)
\* /[^\d.]/g
NotDigitNotDot == NCls(Digits \cup {"."})

parsePriceImpl(priceText) ==
  IF priceText = "" THEN 0
  ELSE LET cleaned == ReplaceAll(NotDigitNotDot, priceText, "")
           whole == LeadingDigits(cleaned)
           rest == SliceFrom(cleaned, Len(whole) + 1)
           fraction == IF Len(rest) > 0 /\ CharAt(rest, 1) = "."
                         THEN LeadingDigits(SliceFrom(rest, 2)) ELSE ""
       IN IF whole = "" /\ fraction = "" THEN 0
          ELSE ParseInt(whole)
                 + (IF fraction # "" /\ DigitValue[CharAt(fraction, 1)] >= 5
                      THEN 1 ELSE 0)

ExtractBrandNames ==
  <<"Apple", "Samsung", "Xiaomi", "OnePlus", "Realme", "Vivo", "Oppo", "Nokia",
    "iPhone", "iPad", "MacBook", "Galaxy", "Pixel", "Mi", "Redmi",
    "Nike", "Adidas", "Puma", "Reebok", "Levi", "Zara", "H&M", "Mango",
    "Lakme", "Maybelline", "L'Oreal", "MAC", "Revlon", "Nykaa",
    "Sony", "LG", "Philips", "Panasonic", "Whirlpool", "Bosch", "IFB",
    "Dell", "HP", "Lenovo", "Asus", "Acer", "MSI",
    "Boat", "JBL", "Bose", "Sennheiser", "Canon", "Nikon">>

extractBrandImpl(title) ==
  LET titleLower == ToLowerCase(title)
      hits == {k \in DOMAIN ExtractBrandNames :
                 Includes(titleLower, ToLowerCase(ExtractBrandNames[k]))}
  IN IF SomeIncluded(<<"iphone", "ipad", "macbook", "airpods", "apple">>, titleLower)
       THEN "Apple"
     ELSE IF hits # {}
       THEN ExtractBrandNames[CHOOSE k \in hits : \A j \in hits : k <= j]
     ELSE SplitWs(Trim(title))[1]

detectCategoryImpl(title) ==
  LET titleLower == ToLowerCase(title)
      has(words) == SomeIncluded(words, titleLower)
  IN IF has(<<"phone", "mobile", "smartphone", "iphone", "galaxy">>)
       THEN "electronics-phone"
     ELSE IF has(<<"laptop", "notebook", "macbook", "computer", "gaming laptop">>)
       THEN "electronics-laptop"
     ELSE IF has(<<"graphics card", "gpu", "geforce", "radeon", "video card">>)
       THEN "electronics-gpu"
     ELSE IF has(<<"tablet", "ipad">>) THEN "electronics-tablet"
     ELSE IF has(<<"shirt", "jeans", "dress", "trouser", "shoe", "sneaker", "jacket",
                   "hoodie", "kurta", "saree">>)
       THEN "fashion"
     ELSE IF has(<<"lipstick", "makeup", "foundation", "cream", "lotion", "serum",
                   "shampoo", "perfume">>)
       THEN "beauty"
     ELSE "general"

\* extractProductInfo: the product of the page the popup was opened on
extractProductInfoImpl(site, title, priceText, productId, brandText) ==
  [site |-> site,
   title |-> IF title = "" THEN "Product not found" ELSE title,
   price |-> priceText,
   numericPrice |-> parsePrice(priceText),
   productId |-> productId,
   brand |-> IF brandText # "" THEN brandText
             ELSE extractBrand(IF title = "" THEN "Product not found" ELSE title),
   category |-> detectCategory(IF title = "" THEN "Product not found" ELSE title)]

\* the record scrapeSearchResults pushes for one result container
scrapedProductImpl(site, title, priceText, productId) ==
  [site |-> site,
   title |-> title,
   price |-> priceText,
   numericPrice |-> parsePrice(priceText),
   productId |-> productId,
   brand |-> extractBrand(title),
   category |-> detectCategory(title)]

\* the containers scrapeSearchResults does not skip
scrapeAcceptsImpl(title, priceText) ==
  title # "" /\ priceText # "" /\ parsePrice(priceText) >= 10

(***************************************************************************)
(* utils/deduplication.ts and deduplicateColorVariants of the popup        *)
(***************************************************************************)
\* the characters of the model's strings in code-unit order
CodeOrder ==
  " &'(),-./0123456789:ABCDEFGHIJKLMNOPQRSTUVWXYZ_abcdefghijklmnopqrstuvwxyz"

CharCode(c) == CHOOSE k \in 1..Len(CodeOrder) : CharAt(CodeOrder, k) = c

\* a < b on JavaScript strings
StrLessImpl(a, b) ==
  LET differ == {i \in 1..Min2(Len(a), Len(b)) : CharAt(a, i) # CharAt(b, i)}
      first == CHOOSE i \in differ : \A j \in differ : i <= j
  IN IF differ = {} THEN Len(a) < Len(b)
     ELSE CharCode(CharAt(a, first)) < CharCode(CharAt(b, first))

\* text.replace(new RegExp(`\\b${word}\\b`, 'gi'), ''), trimmed when trimEach
StripWordImpl(text, word, trimEach) ==
  LET stripped ==
        \* a word that occurs nowhere leaves the text as it is
        IF Includes(ToLowerCase(text), word)
          THEN ReplaceAllI(Cat(<<WB, Lit(word), WB>>), text, "")
          ELSE text
  IN IF trimEach THEN Trim(stripped) ELSE stripped

\* the loop over the words lo..hi in turn (the range is halved so that the
\* evaluation stays shallow)
RECURSIVE StripRange(_, _, _, _, _)
StripRange(text, words, lo, hi, trimEach) ==
  IF lo > hi \/ text = "" THEN text
  ELSE IF lo = hi THEN StripWord(text, words[lo], trimEach)
  ELSE LET mid == (lo + hi) \div 2
       IN StripRange(StripRange(text, words, lo, mid, trimEach),
                     words, mid + 1, hi, trimEach)

StripWordsImpl(text, words, trimEach) == StripRange(text, words, 1, Len(words), trimEach)

\* s.replace(/\s+/g, ' ').trim()
CollapseSpacesImpl(s) == Trim(ReplaceAll(Ws1, s, " "))

KeyColors ==
  <<"black", "white", "red", "blue", "green", "yellow", "pink", "purple", "orange",
    "grey", "gray", "brown", "beige", "navy", "maroon", "teal", "olive", "gold",
    "silver", "rose", "mint", "coral", "cream", "ivory", "khaki", "cyan", "magenta">>

\* /\b(xs|s|m|l|xl|xxl|xxxl)\b/gi
SizePattern == Cat(<<WB, Words(<<"xs", "s", "m", "l", "xl", "xxl", "xxxl">>), WB>>)

\* /\b\d+(\.\d+)?\s*(gb|tb|mb|kg|g|ml|l|inch|cm|mm)\b/gi
MeasurePattern ==
  Cat(<<WB, Num1, Opt(Cat(<<Lit("."), Num1>>)), Ws0,
        Words(<<"gb", "tb", "mb", "kg", "g", "ml", "l", "inch", "cm", "mm">>), WB>>)

VariantWords == <<"variant", "color", "colour", "size", "pack of", "combo">>

normalizeProductKeyImpl(product) ==
  LET noColors == StripWords(ToLowerCase(product.title), KeyColors, FALSE)
      noSizes == ReplaceAllI(MeasurePattern, ReplaceAllI(SizePattern, noColors, ""), "")
      noVariants == StripWords(noSizes, VariantWords, FALSE)
  IN ToLowerCase(product.brand) \o ":" \o CollapseSpaces(noVariants)

\* the positions of a list whose key occurs at no earlier position
FirstOccurrences(keys) ==
  LET first(i) == \A j \in 1..(i - 1) : keys[j] # keys[i]
  IN SelectSeq([i \in DOMAIN keys |-> i], first)

\* group.reduce((min, p) => p.price < min.price ? p : min)
\* (the first member that no member is below)
CheapestByPriceTextImpl(group) ==
  LET least == {i \in DOMAIN group :
                  \A j \in DOMAIN group : ~StrLess(group[j].price, group[i].price)}
  IN group[CHOOSE i \in least : \A j \in least : i <= j]

\* a reduce that keeps the first member of the group
FirstOfGroup(group) == group[1]

\* variants.reduce((min, curr) => curr.numericPrice < min.numericPrice ? curr : min)
\* (the first member that no member is below)
CheapestByNumericPrice(group) ==
  LET least == {i \in DOMAIN group :
                  \A j \in DOMAIN group : group[j].numericPrice >= group[i].numericPrice}
  IN group[CHOOSE i \in least : \A j \in least : i <= j]

\* the members of a Map entry: the elements of seq whose key is keys[i]
GroupOf(seq, keys, i) ==
  LET same(j) == keys[j] = keys[i]
      members == SelectSeq([j \in DOMAIN keys |-> j], same)
  IN [n \in DOMAIN members |-> seq[members[n]]]

deduplicateSiteProductsImpl(products) ==
  LET keys == AsArray([i \in DOMAIN products |-> normalizeProductKey(products[i])])
      firsts == FirstOccurrences(keys)
  IN [g \in DOMAIN firsts |->
        LET group == GroupOf(products, keys, firsts[g])
        IN CheapestByPriceText(group)]

deduplicateProductsImpl(products) ==
  LET sites == [i \in DOMAIN products |-> products[i].site]
      firsts == FirstOccurrences(sites)
  IN Pushed([g \in DOMAIN firsts |->
               deduplicateSiteProducts(GroupOf(products, sites, firsts[g]))])

ColorKeywords ==
  <<"black", "white", "blue", "red", "green", "yellow", "pink", "purple",
    "grey", "gray", "silver", "gold", "rose", "midnight", "starlight",
    "coral", "velvet", "ocean", "space", "titanium", "natural", "pro">>

variantKeyImpl(match) ==
  match.site \o "|" \o match.brand \o "|"
    \o CollapseSpaces(StripWords(ToLowerCase(match.title), ColorKeywords, TRUE))

\* a deduplication that only drops the dearest members of a group of several
dropDearestVariants(matches) ==
  LET keys == AsArray([i \in DOMAIN matches |-> variantKey(matches[i])])
      alone(i) == \A j \in DOMAIN matches : keys[j] = keys[i] => j = i
      dearest(i) == \A j \in DOMAIN matches :
                      keys[j] = keys[i] => matches[j].numericPrice <= matches[i].numericPrice
      keep(i) == alone(i) \/ ~dearest(i)
      kept == SelectSeq([i \in DOMAIN matches |-> i], keep)
  IN [n \in DOMAIN kept |-> matches[kept[n]]]

deduplicateColorVariantsImpl(matches) ==
  LET keys == AsArray([i \in DOMAIN matches |-> variantKey(matches[i])])
      firsts == FirstOccurrences(keys)
  IN [g \in DOMAIN firsts |->
        LET group == GroupOf(matches, keys, firsts[g])
        IN CheapestByNumericPrice(group)]


(***************************************************************************)
(* config/sites.ts                                                         *)
(***************************************************************************)
SITE_CONFIGS ==
  <<[site |-> "amazon", enabled |-> TRUE, priority |-> 1],
    [site |-> "flipkart", enabled |-> TRUE, priority |-> 2],
    [site |-> "myntra", enabled |-> FALSE, priority |-> 3],
    [site |-> "snapdeal", enabled |-> TRUE, priority |-> 4],
    [site |-> "tatacliq", enabled |-> TRUE, priority |-> 5],
    [site |-> "ajio", enabled |-> TRUE, priority |-> 6],
    [site |-> "nykaa", enabled |-> TRUE, priority |-> 7],
    [site |-> "croma", enabled |-> TRUE, priority |-> 8],
    [site |-> "vijaysales", enabled |-> TRUE, priority |-> 9]>>

\* the enabled sites in ascending priority
getEnabledSites ==
  LET isEnabled(c) == c.enabled
      enabled == SelectSeq(SITE_CONFIGS, isEnabled)
      rank(i) == Cardinality({j \in DOMAIN enabled :
                     \/ enabled[j].priority < enabled[i].priority
                     \/ enabled[j].priority = enabled[i].priority /\ j < i}) + 1
  IN [r \in DOMAIN enabled |->
        enabled[CHOOSE i \in DOMAIN enabled : rank(i) = r].site]

(***************************************************************************)
(* The product pages the popup can be opened on, and the result containers *)
(* each competitor site's search page shows for the page's product: the    *)
(* texts the content script reads from the DOM.                            *)
(***************************************************************************)
\* a phone with many close listings on three sites
PhonePage ==
  [site |-> "amazon", title |-> "Apple iPhone 15 Pro Max 256GB Blue Titanium",
   priceText |-> "1,39,900", productId |-> "B0CHX1W1XY", brandText |-> "Apple",
   containers |->
     <<<<"flipkart", "Apple iPhone 15 Pro Max (256 GB) - Blue Titanium", "1,38,999", "MOBGTAGP">>,
       <<"flipkart", "Apple iPhone 15 Pro Max (256 GB) - Natural Titanium", "1,34,900", "MOBGTAGN">>,
       <<"flipkart", "Apple iPhone 15 Pro 128GB - Blue", "1,19,900", "MOBGTAGB">>,
       <<"flipkart", "iPhone 15 Pro Max 256GB Blue Titanium", "1,39,900", "MOBGTAGT">>,
       <<"flipkart", "Apple iPhone 15 Pro Max 256GB", "1,37,990", "MOBGTAGM">>,
       <<"flipkart", "Apple iPhone 15 Pro Max 1TB", "", "MOBGTAGX">>,
       <<"snapdeal", "Apple iPhone 15 Plus 256GB Blue", "89,900", "">>,
       <<"snapdeal", "Apple iPhone 15 Pro Max Case Cover Blue", "499", "">>,
       <<"snapdeal", "Apple MacBook Air Laptop M2 256GB", "99,900", "">>,
       <<"snapdeal", "Apple iPhone 14 Pro Max 256GB Deep Purple", "1,27,999", "">>,
       <<"croma", "Apple iPhone 15 Pro Max 256GB Blue Titanium", "1,39,900", "300822">>,
       <<"croma", "Apple iPhone 15 Pro Max 256 GB Blue", "1,41,000", "300823">>>>]

\* a phone whose listing titles start with a word that is not the brand
BrandlessPage ==
  [site |-> "amazon", title |-> "Nothing Phone 2a 5G 8GB RAM 256GB Black",
   priceText |-> "25,999", productId |-> "B0CVQKJ4CV", brandText |-> "",
   containers |->
     <<<<"flipkart", "New Nothing Phone 2a 5G 8GB RAM 256GB Black", "25,999", "MOBGVMGK">>>>]

\* a laptop whose competitor listings are classified as phones
LaptopPage ==
  [site |-> "flipkart", title |-> "Samsung Book3 Pro Laptop 16GB RAM 512GB SSD",
   priceText |-> "1,31,990", productId |-> "COMGMZX3", brandText |-> "Samsung",
   containers |->
     <<<<"amazon", "Samsung Galaxy Book3 Pro Laptop 16GB RAM 512GB SSD", "1,29,990", "B0BVR8M1XT">>,
       <<"amazon", "Wooden Study Table Large", "4,999", "B09TABLE01">>,
       <<"croma", "Samsung Galaxy S23 Ultra 5G Mobile 256GB", "1,24,999", "268869">>>>]

\* a headset for which only loosely related products are listed
HeadsetPage ==
  [site |-> "amazon", title |-> "Boat Rockerz 450 Pro Bluetooth Headset",
   priceText |-> "1,499", productId |-> "", brandText |-> "",
   containers |->
     <<<<"flipkart", "Boat", "1,299", "">>,
       <<"flipkart", "Boat Airdopes 141 Earbuds", "5", "">>,
       <<"snapdeal", "JBL Tune 510BT Wireless", "2,999", "">>,
       <<"croma", "Boat Stone 352 Speaker", "1,799", "">>>>]

\* a headset listed elsewhere under its own product id
SameIdPage ==
  [site |-> "amazon", title |-> "Sony WH-1000XM5 Wireless Headset Black",
   priceText |-> "26,990", productId |-> "WH1000XM5", brandText |-> "Sony",
   containers |->
     <<<<"flipkart", "Noise Cancelling Over Ear Black Edition", "27,490", "WH1000XM5">>,
       <<"flipkart", "Sony Carrying Case WH-1000XM5", "1,990", "WH1000XM5">>,
       <<"croma", "Sony WH-1000XM4 Wireless Headset Black", "19,990", "WH1000XM4">>>>]

\* a laptop listed on one site as a mobile workstation, and another model of
\* its brand listed on another
WorkstationPage ==
  [site |-> "amazon", title |-> "HP Pavilion 15 Laptop 16GB RAM 512GB SSD",
   priceText |-> "65,990", productId |-> "B0PAV15", brandText |-> "HP",
   containers |->
     <<<<"flipkart", "HP Victus 16 Mobile 16GB RAM 512GB", "64,990", "COMVIC16">>,
       <<"croma", "HP Pavilion 15 Mobile Workstation", "66,490", "COMPAV15">>>>]

\* a laptop for which two sites list a whole range of its brand's mobile
\* workstations
CataloguePage ==
  [site |-> "amazon", title |-> "HP Pavilion 15 Laptop 16GB RAM 512GB SSD",
   priceText |-> "65,990", productId |-> "B0PAV15", brandText |-> "HP",
   containers |->
     <<<<"flipkart", "HP Mobile Workstation Z1", "61,990", "COMZ1">>,
       <<"flipkart", "HP Mobile Workstation Z2", "62,990", "COMZ2">>,
       <<"flipkart", "HP Mobile Workstation Z3", "63,990", "COMZ3">>,
       <<"flipkart", "HP Mobile Workstation Z4", "64,990", "COMZ4">>,
       <<"flipkart", "HP Mobile Workstation Z5", "65,990", "COMZ5">>,
       <<"flipkart", "HP Mobile Workstation Z6", "66,990", "COMZ6">>,
       <<"flipkart", "HP Mobile Workstation Z7", "67,990", "COMZ7">>,
       <<"flipkart", "HP Mobile Workstation Z8", "68,990", "COMZ8">>,
       <<"flipkart", "HP Mobile Workstation Z9", "69,990", "COMZ9">>,
       <<"flipkart", "HP Mobile Workstation Z10", "70,990", "COMZ10">>,
       <<"flipkart", "HP Mobile Workstation Z11", "71,990", "COMZ11">>,
       <<"croma", "HP Mobile Workstation Z1", "91,490", "271">>,
       <<"croma", "HP Mobile Workstation Z2", "92,490", "272">>,
       <<"croma", "HP Mobile Workstation Z3", "93,490", "273">>,
       <<"croma", "HP Mobile Workstation Z4", "94,490", "274">>,
       <<"croma", "HP Mobile Workstation Z5", "95,490", "275">>,
       <<"croma", "HP Mobile Workstation Z6", "96,490", "276">>,
       <<"croma", "HP Mobile Workstation Z7", "97,490", "277">>,
       <<"croma", "HP Mobile Workstation Z8", "98,490", "278">>,
       <<"croma", "HP Mobile Workstation Z9", "99,490", "279">>,
       <<"croma", "HP Mobile Workstation Z10", "100,490", "2710">>>>]

\* a headset for which two sites list the brand's speakers at other prices
BrandShelfPage ==
  [site |-> "amazon", title |-> "Boat Rockerz 450 Pro Bluetooth Headset",
   priceText |-> "1,499", productId |-> "", brandText |-> "",
   containers |->
     <<<<"flipkart", "Boat Speaker S1", "5,999", "ACCS1">>,
       <<"flipkart", "Boat Speaker S2", "6,999", "ACCS2">>,
       <<"flipkart", "Boat Speaker S3", "7,999", "ACCS3">>,
       <<"flipkart", "Boat Speaker S4", "8,999", "ACCS4">>,
       <<"flipkart", "Boat Speaker S5", "9,999", "ACCS5">>,
       <<"flipkart", "Boat Speaker S6", "10,999", "ACCS6">>,
       <<"flipkart", "Boat Speaker S7", "11,999", "ACCS7">>,
       <<"flipkart", "Boat Speaker S8", "12,999", "ACCS8">>,
       <<"croma", "Boat Speaker S1", "5,499", "311">>,
       <<"croma", "Boat Speaker S2", "6,499", "312">>,
       <<"croma", "Boat Speaker S3", "7,499", "313">>,
       <<"croma", "Boat Speaker S4", "8,499", "314">>,
       <<"croma", "Boat Speaker S5", "9,499", "315">>,
       <<"croma", "Boat Speaker S6", "10,499", "316">>,
       <<"croma", "Boat Speaker S7", "11,499", "317">>,
       <<"croma", "Boat Speaker S8", "12,499", "318">>>>]

\* a laptop that two sites list as a mobile workstation in several editions,
\* with the source's memory, with another and with none in the title
EditionsPage ==
  [site |-> "amazon", title |-> "HP Pavilion 15 Laptop 16GB RAM 512GB SSD",
   priceText |-> "65,990", productId |-> "B0PAV15", brandText |-> "HP",
   containers |->
     <<<<"flipkart", "HP Pavilion 15 Mobile Workstation Office Edition 16GB", "66,490", "COMPAV1">>,
       <<"flipkart", "HP Pavilion 15 Mobile Workstation Student Edition 8GB", "58,990", "COMPAV2">>,
       <<"flipkart", "HP Pavilion 15 Mobile Workstation Creator Edition", "67,990", "COMPAV3">>,
       <<"flipkart", "HP Victus 16 Mobile 16GB RAM 512GB", "64,990", "COMVIC16">>,
       <<"croma", "HP Pavilion 15 Mobile Workstation Travel Edition 16GB", "66,990", "2801">>,
       <<"croma", "HP Pavilion 15 Mobile Workstation Campus Edition", "65,490", "2802">>,
       <<"croma", "HP Pavilion 15 Mobile Workstation Studio Edition 8GB", "59,490", "2803">>>>]

\* a phone that one site lists in another colour at a clearance price
ClearancePage ==
  [site |-> "amazon", title |-> "Apple iPhone 15 Pro Max 256GB Blue Titanium",
   priceText |-> "1,39,900", productId |-> "B0CHX1W1XY", brandText |-> "Apple",
   containers |->
     <<<<"flipkart", "Apple iPhone 15 Pro Max (256 GB) - Natural Titanium", "84,900", "MOBGTAGN">>>>]

PageTexts ==
  <<PhonePage, BrandlessPage, LaptopPage, HeadsetPage, SameIdPage,
    WorkstationPage, CataloguePage, BrandShelfPage, EditionsPage,
    ClearancePage>>

\* the products scrapeSearchResults returns for the containers of one site
scrapeSearchResultsImpl(site, containers) ==
  LET scraped(c) ==
        IF c[1] = site /\ scrapeAccepts(c[2], c[3])
          THEN <<scrapedProduct(site, c[2], c[3], c[4])>>
          ELSE <<>>
  IN Pushed([k \in DOMAIN containers |-> scraped(containers[k])])

\* what the content script makes of one page and of the search pages for it
scrapePageImpl(texts) ==
  [product |-> extractProductInfo(texts.site, texts.title, texts.priceText,
                                  texts.productId, texts.brandText),
   listings |-> [site \in SetOf(getEnabledSites) |->
                   scrapeSearchResults(site, texts.containers)]]

Pages == [p \in DOMAIN PageTexts |-> scrapePage(PageTexts[p])]

Apply(op, args) ==
  CASE op = "LowerChar" -> LowerCharImpl(args[1])
    [] op = "UpperChar" -> UpperCharImpl(args[1])
    [] op = "ToLowerCase" -> ToLowerCaseImpl(args[1])
    [] op = "Trim" -> TrimImpl(args[1])
    [] op = "ParseInt" -> ParseIntImpl(args[1])
    [] op = "IsWordAt" -> IsWordAtImpl(args[1], args[2])
    [] op = "MatchEnds" -> MatchEndsImpl(args[1], args[2], args[3])
    [] op = "ReSearch" -> ReSearchImpl(args[1], args[2])
    [] op = "ReTest" -> ReTestImpl(args[1], args[2])
    [] op = "ReMatchText" -> ReMatchTextImpl(args[1], args[2])
    [] op = "ScanStops" -> ScanStopsImpl(args[1])
    [] op = "MatchStarts" -> MatchStartsImpl(args[1])
    [] op = "ReReplace" -> ReReplaceImpl(args[1], args[2], args[3])
    [] op = "ReplaceAll" -> ReplaceAllImpl(args[1], args[2], args[3])
    [] op = "ReplaceAllI" -> ReplaceAllIImpl(args[1], args[2], args[3])
    [] op = "SplitAt" -> SplitAtImpl(args[1], args[2])
    [] op = "MatchesOf" -> MatchesOfImpl(args[1], args[2])
    [] op = "SplitWs" -> SplitWsImpl(args[1])
    [] op = "DigitRuns" -> DigitRunsImpl(args[1])
    [] op = "normalizeBrand" -> normalizeBrandImpl(args[1])
    [] op = "brandsMatch" -> brandsMatchImpl(args[1], args[2])
    [] op = "extractModel" -> extractModelImpl(args[1])
    [] op = "ToUpperCase" -> ToUpperCaseImpl(args[1])
    [] op = "extractStorage" -> extractStorageImpl(args[1])
    [] op = "extractRAM" -> extractRAMImpl(args[1])
    [] op = "extractColor" -> extractColorImpl(args[1])
    [] op = "QAdd" -> QAddImpl(args[1], args[2])
    [] op = "QMul" -> QMulImpl(args[1], args[2])
    [] op = "smartDetectCategory" -> smartDetectCategoryImpl(args[1])
    [] op = "filterByCategory" -> filterByCategoryImpl(args[1], args[2], args[3])
    [] op = "smartTokenize" -> smartTokenizeImpl(args[1])
    [] op = "generateNGrams" -> generateNGramsImpl(args[1], args[2])
    [] op = "extractFeatures" -> extractFeaturesImpl(args[1])
    [] op = "scoreBrand" -> scoreBrandImpl(args[1], args[2])
    [] op = "calculateTokenOverlap" -> calculateTokenOverlapImpl(args[1], args[2])
    [] op = "LevRow" -> LevRowImpl(args[1], args[2], args[3], args[4])
    [] op = "levenshteinDistance" -> levenshteinDistanceImpl(args[1], args[2])
    [] op = "stringSimilarity" -> stringSimilarityImpl(args[1], args[2])
    [] op = "cleanModel" -> cleanModelImpl(args[1])
    [] op = "scoreModel" -> scoreModelImpl(args[1], args[2], args[3], args[4])
    [] op = "scoreSpecs" -> scoreSpecsImpl(args[1], args[2])
    [] op = "scoreTitleSimilarity" -> scoreTitleSimilarityImpl(args[1], args[2], args[3], args[4])
    [] op = "scoreCategory" -> scoreCategoryImpl(args[1], args[2])
    [] op = "calculateScore" -> calculateScoreImpl(args[1], args[2], args[3], args[4])
    [] op = "getMatchLevel" -> getMatchLevelImpl(args[1])
    [] op = "getMatchBadge" -> getMatchBadgeImpl(args[1])
    [] op = "smartResult" -> smartResultImpl(args[1], args[2])
    [] op = "scoreCandidates" -> scoreCandidatesImpl(args[1], args[2], args[3])
    [] op = "categoryFilteredOf" -> categoryFilteredOfImpl(args[1], args[2])
    [] op = "scoreAll" -> scoreAllImpl(args[1], args[2])
    [] op = "sortAndSlice" -> sortAndSliceImpl(args[1])
    [] op = "selectMatches" -> selectMatchesImpl(args[1])
    [] op = "smartFindMatches" -> smartFindMatchesImpl(args[1], args[2])
    [] op = "isAccessory" -> isAccessoryImpl(args[1])
    [] op = "filterAccessories" -> filterAccessoriesImpl(args[1], args[2])
    [] op = "extractAttributes" -> extractAttributesImpl(args[1])
    [] op = "compareBrands" -> compareBrandsImpl(args[1], args[2])
    [] op = "compareModels" -> compareModelsImpl(args[1], args[2])
    [] op = "legacyTokenize" -> legacyTokenizeImpl(args[1])
    [] op = "calculateTextSimilarity" -> calculateTextSimilarityImpl(args[1], args[2])
    [] op = "hasCommonKeywords" -> hasCommonKeywordsImpl(args[1], args[2])
    [] op = "brandModelStorageRound" -> brandModelStorageRoundImpl(args[1], args[2])
    [] op = "findBrandModelStorageMatches" -> findBrandModelStorageMatchesImpl(args[1], args[2], args[3])
    [] op = "brandModelRound" -> brandModelRoundImpl(args[1], args[2], args[3])
    [] op = "findBrandModelMatches" -> findBrandModelMatchesImpl(args[1], args[2], args[3])
    [] op = "fuzzyRound" -> fuzzyRoundImpl(args[1], args[2], args[3])
    [] op = "findFuzzyMatches" -> findFuzzyMatchesImpl(args[1], args[2], args[3])
    [] op = "sortAndLimit" -> sortAndLimitImpl(args[1])
    [] op = "legacyFindMatches" -> legacyFindMatchesImpl(args[1], args[2])
    [] op = "similarConfidence" -> similarConfidenceImpl(args[1], args[2])
    [] op = "similarRound" -> similarRoundImpl(args[1], args[2])
    [] op = "findSimilarProducts" -> findSimilarProductsImpl(args[1], args[2])
    [] op = "parsePrice" -> parsePriceImpl(args[1])
    [] op = "extractBrand" -> extractBrandImpl(args[1])
    [] op = "detectCategory" -> detectCategoryImpl(args[1])
    [] op = "extractProductInfo" -> extractProductInfoImpl(args[1], args[2], args[3], args[4], args[5])
    [] op = "scrapedProduct" -> scrapedProductImpl(args[1], args[2], args[3], args[4])
    [] op = "scrapeAccepts" -> scrapeAcceptsImpl(args[1], args[2])
    [] op = "StrLess" -> StrLessImpl(args[1], args[2])
    [] op = "StripWord" -> StripWordImpl(args[1], args[2], args[3])
    [] op = "StripWords" -> StripWordsImpl(args[1], args[2], args[3])
    [] op = "CollapseSpaces" -> CollapseSpacesImpl(args[1])
    [] op = "normalizeProductKey" -> normalizeProductKeyImpl(args[1])
    [] op = "CheapestByPriceText" -> CheapestByPriceTextImpl(args[1])
    [] op = "deduplicateSiteProducts" -> deduplicateSiteProductsImpl(args[1])
    [] op = "deduplicateProducts" -> deduplicateProductsImpl(args[1])
    [] op = "variantKey" -> variantKeyImpl(args[1])
    [] op = "deduplicateColorVariants" -> deduplicateColorVariantsImpl(args[1])
    [] op = "scrapeSearchResults" -> scrapeSearchResultsImpl(args[1], args[2])
    [] op = "scrapePage" -> scrapePageImpl(args[1])

(***************************************************************************)
(* utils/product.ts: the popup's state and one comparison                  *)
(***************************************************************************)
\* how many times the compare button is pressed in one popup session
MaxComparisons == 1

BATCH_SIZE == 3

\* currentProduct before a product page has been recognised (null)
NoProduct == [site |-> ""]

NoStageOutput == [primary |-> <<>>, legacy |-> <<>>, similar |-> <<>>]

NothingDisplayed == [status |-> "none", matches |-> <<>>, hasSimilar |-> FALSE]

\* no library function is under test
NoCall == [fn |-> "none", input |-> <<>>, applied |-> <<>>]

VARIABLES
  page,                  \* index in Pages of the open product page, 0 if none
  currentProduct,        \* the popup's currentProduct
  isComparing,           \* the popup's isComparing
  pc,                    \* where startComparison is
  batchIndex,            \* the batch the search loop is at
  validResults,          \* startComparison's validResults
  deduplicatedProducts,  \* startComparison's deduplicatedProducts
  scored,                \* the scoring the primary matcher gave each candidate
  allMatches,            \* startComparison's allMatches
  invoked,               \* the stages run so far in this comparison, in order
  stageOut,              \* what each stage returned in this comparison
  displayed,             \* what displayResults was last handed
  failed,                \* the stages that threw in this comparison
  comparisons,           \* comparisons started so far
  legacyLevels,          \* the levels the legacy matcher ran in this comparison
  call,                  \* a library function under test: its input and results
  compareBtnDisabled,    \* compareBtn.disabled
  awaiting,              \* click handlers waiting for their startComparison
  events,                \* what the clicks and the comparisons did, in order
  tabs,                  \* the background tabs that are open
  searches               \* where each call of searchSite is

vars == <<page, currentProduct, isComparing, pc, batchIndex, validResults,
          deduplicatedProducts, scored, allMatches, invoked, stageOut,
          displayed, failed, comparisons, legacyLevels, call,
          compareBtnDisabled, awaiting, events, tabs, searches>>

competitorSitesOf(product) ==
  LET other(site) == site # product.site
  IN SelectSeq(getEnabledSites, other)

\* the batches of the search loop
batchesOf(product) ==
  LET competitorSites == competitorSitesOf(product)
      count == (Len(competitorSites) + BATCH_SIZE - 1) \div BATCH_SIZE
  IN [k \in 1..count |->
        SubSeq(competitorSites, (k - 1) * BATCH_SIZE + 1,
               Min2(k * BATCH_SIZE, Len(competitorSites)))]

\* the results one batch pushes: a site whose search gave null or no products
\* pushes nothing
batchResults(batch, listings, answered) ==
  LET result(site) ==
        IF site \in answered /\ Len(listings[site]) > 0
          THEN <<[site |-> site, products |-> listings[site]]>>
          ELSE <<>>
  IN Pushed([k \in DOMAIN batch |-> result(batch[k])])

collectProducts(results) ==
  Pushed([k \in DOMAIN results |-> results[k].products])

\* a fallback that also runs after a stage that returned only a few matches
needsFallbackBelowFive(matches) == Len(matches) < 5

\* a fallback that does not look at what the earlier stage returned
needsFallbackAlways(matches) == TRUE

\* the two tests "allMatches.length === 0" that guard the fallback stages
needsFallback(matches) == Len(matches) = 0

\* a stage whose failure leaves it with the results it had computed
stageOutcomeKept(throws, matches) == matches

\* what a matcher's call gives: its catch block returns [] (in the similar
\* finder's case nothing is pushed to allMatches)
stageOutcome(throws, matches) == IF throws THEN <<>> ELSE matches

\* where startComparison goes on after the similar-product finder: to the
\* final deduplication, or from its catch block straight to displayResults
afterSimilar(throws) == IF throws THEN "display" ELSE "dedup"

displayResults(matches, hasSimilar) ==
  LET available(m) == TRUE
      availableMatches == SelectSeq(matches, available)
      displayMatches == IF Len(availableMatches) > 0 THEN availableMatches ELSE matches
  IN [status |-> IF Len(displayMatches) = 0 THEN "no-results" ELSE "results",
      matches |-> displayMatches,
      hasSimilar |-> hasSimilar]

Init ==
  /\ page \in 0..Len(PageTexts)
  /\ currentProduct = IF page = 0 THEN NoProduct ELSE Pages[page].product
  /\ isComparing = FALSE
  /\ pc = "idle"
  /\ batchIndex = 0
  /\ validResults = <<>>
  /\ deduplicatedProducts = <<>>
  /\ scored = <<>>
  /\ allMatches = <<>>
  /\ invoked = <<>>
  /\ stageOut = NoStageOutput
  /\ displayed = NothingDisplayed
  /\ failed = {}
  /\ comparisons = 0
  /\ legacyLevels = <<>>
  /\ call = NoCall
  /\ compareBtnDisabled = (currentProduct = NoProduct)
  /\ awaiting = 0
  /\ events = <<>>
  /\ tabs = {}
  /\ searches = <<>>

\* the click handler of the compare button up to the first search batch
ClickCompare ==
  /\ currentProduct # NoProduct
  /\ ~isComparing
  /\ comparisons < MaxComparisons
  /\ isComparing' = TRUE
  /\ comparisons' = comparisons + 1
  /\ pc' = "search"
  /\ batchIndex' = 1
  /\ validResults' = <<>>
  /\ deduplicatedProducts' = <<>>
  /\ scored' = <<>>
  /\ allMatches' = <<>>
  /\ invoked' = <<>>
  /\ stageOut' = NoStageOutput
  /\ displayed' = NothingDisplayed
  /\ failed' = {}
  /\ legacyLevels' = <<>>
  /\ UNCHANGED <<compareBtnDisabled, awaiting, events, tabs, searches,
                 call, page, currentProduct>>

\* one round of the batch loop: the sites of the batch are searched together
\* and the successful results are pushed in the batch's order
SearchBatch ==
  /\ pc = "search"
  /\ batchIndex <= Len(batchesOf(currentProduct))
  /\ \E answered \in SUBSET SetOf(batchesOf(currentProduct)[batchIndex]) :
       validResults' = validResults \o batchResults(batchesOf(currentProduct)[batchIndex],
                                                    Pages[page].listings, answered)
  /\ batchIndex' = batchIndex + 1
  /\ UNCHANGED <<compareBtnDisabled, awaiting, events, tabs, searches,
                 call, legacyLevels, page, currentProduct, isComparing, pc,
                 deduplicatedProducts,
                 scored, allMatches, invoked, stageOut, displayed, failed,
                 comparisons>>

\* after the last batch: collect the products and deduplicate them
CollectProducts ==
  /\ pc = "search"
  /\ batchIndex > Len(batchesOf(currentProduct))
  /\ deduplicatedProducts' = deduplicateProducts(collectProducts(validResults))
  /\ pc' = IF Len(deduplicatedProducts') > 0 THEN "primary" ELSE "display"
  /\ UNCHANGED <<compareBtnDisabled, awaiting, events, tabs, searches,
                 call, legacyLevels, page, currentProduct, isComparing,
                 batchIndex, validResults,
                 scored, allMatches, invoked, stageOut, displayed, failed,
                 comparisons>>

\* await smartMatcher.findMatches(product, deduplicatedProducts); throws says
\* whether something inside the matcher's try block threw
PrimaryStage ==
  /\ pc = "primary"
  /\ \E throws \in BOOLEAN :
       /\ scored' = stageOutcome(throws, scoreAll(currentProduct, deduplicatedProducts))
       /\ stageOut' = [stageOut EXCEPT
                         !.primary = stageOutcome(throws, selectMatches(scored'))]
       /\ failed' = IF throws THEN failed \cup {"primary"} ELSE failed
  /\ allMatches' = allMatches \o stageOut'.primary
  /\ invoked' = Append(invoked, "primary")
  /\ pc' = IF needsFallback(allMatches') THEN "legacy" ELSE "dedup"
  /\ UNCHANGED <<compareBtnDisabled, awaiting, events, tabs, searches,
                 call, legacyLevels, page, currentProduct, isComparing,
                 batchIndex, validResults,
                 deduplicatedProducts, displayed, comparisons>>

\* await productMatcher.findMatches(product, deduplicatedProducts)
LegacyStage ==
  /\ pc = "legacy"
  /\ \E throws \in BOOLEAN :
       LET found == legacyFindMatches(currentProduct, deduplicatedProducts)
       IN /\ stageOut' = [stageOut EXCEPT !.legacy = stageOutcome(throws, found.matches)]
          /\ failed' = IF throws THEN failed \cup {"legacy"} ELSE failed
          \* what threw did so before some level was over
          /\ \E n \in 0..Len(found.levels) :
               /\ ~throws => n = Len(found.levels)
               /\ legacyLevels' = Take(found.levels, n)
  /\ allMatches' = allMatches \o stageOut'.legacy
  /\ invoked' = Append(invoked, "legacy")
  /\ pc' = IF needsFallback(allMatches') THEN "similar" ELSE "dedup"
  /\ UNCHANGED <<compareBtnDisabled, awaiting, events, tabs, searches,
                 call, page, currentProduct, isComparing, batchIndex, validResults,
                 deduplicatedProducts, scored, displayed, comparisons>>

\* await productMatcher.findSimilarProducts(product, deduplicatedProducts);
\* the finder has no try block of its own: what it throws is caught by
\* startComparison, after the final deduplication
SimilarStage ==
  /\ pc = "similar"
  /\ \E throws \in BOOLEAN :
       /\ stageOut' = [stageOut EXCEPT
                         !.similar = stageOutcome(throws,
                                       findSimilarProducts(currentProduct, deduplicatedProducts))]
       /\ failed' = IF throws THEN failed \cup {"similar"} ELSE failed
       /\ pc' = afterSimilar(throws)
  /\ allMatches' = allMatches \o stageOut'.similar
  /\ invoked' = Append(invoked, "similar")
  /\ UNCHANGED <<compareBtnDisabled, awaiting, events, tabs, searches,
                 call, legacyLevels, page, currentProduct, isComparing,
                 batchIndex, validResults,
                 deduplicatedProducts, scored, displayed, comparisons>>

\* the final deduplication, displayResults and the handler's finally block
FinishComparison ==
  /\ pc \in {"dedup", "display"}
  /\ allMatches' = IF pc = "dedup" THEN deduplicateColorVariants(allMatches)
                   ELSE allMatches
  /\ displayed' = displayResults(allMatches',
                     Len(allMatches') > 0 /\ Len(collectProducts(validResults)) > 0)
  /\ isComparing' = FALSE
  /\ pc' = "idle"
  /\ UNCHANGED <<compareBtnDisabled, awaiting, events, tabs, searches,
                 call, legacyLevels, page, currentProduct, batchIndex, validResults,
                 deduplicatedProducts, scored, invoked, stageOut, failed,
                 comparisons>>

Next ==
  \/ ClickCompare
  \/ SearchBatch
  \/ CollectProducts
  \/ PrimaryStage
  \/ LegacyStage
  \/ SimilarStage
  \/ FinishComparison

Spec == Init /\ [][Next]_vars

(***************************************************************************)
(* The library functions on their own: a function is given an input and    *)
(* applied, and applied again to what it returned                          *)
(***************************************************************************)
\* how many times in a row a function is applied to its own result
MaxApplications == 2

\* brand strings: canonical names, aliases, unknown brands, in several
\* spellings of letter case
BrandInputs ==
  {"", "sony", "SONY", "Sony", "sOnY", "galaxy", "Galaxy", "GALAXY",
   "hp", "HP", "Hp", "hP", "hewlett packard", "Hewlett Packard",
   "boat", "boAt", "BOAT", "mi", "MI", "Mi", "h&m", "H&M", "hm", "HM",
   "l'oreal", "L'OREAL", "L'Oreal", "one plus", "One Plus", "ONE PLUS",
   "acme", "ACME", "Acme", "aCME", " acme", " ACME", "acme ", "ACME ",
   "two words", "Two Words", "TWO WORDS", "x", "X", "7up", "7UP",
   "ßeta", "ßETA"}

\* the longest list of match results handed to the deduplication
MaxListLen == 3

\* match results as the matchers build them: colour variants of one product
\* on one site (two of them at the same price), the same product on another
\* site, and a listing whose title starts with the colour, so that the
\* first-word fallback of extractBrand takes the colour for the brand
VariantPool ==
  <<legacyResult(scrapedProduct("flipkart", "Boat Rockerz 450 Headset Black", "1,499", "ACCB1"),
                 85, "HIGH", "Same Model"),
    legacyResult(scrapedProduct("flipkart", "Boat Rockerz 450 Headset Blue", "1,299", "ACCB2"),
                 85, "HIGH", "Same Model"),
    legacyResult(scrapedProduct("flipkart", "Boat Rockerz 450 Pro Headset Red", "1,299", "ACCB3"),
                 80, "HIGH", "Same Model"),
    legacyResult(scrapedProduct("croma", "Boat Rockerz 450 Headset Black", "1,199", "3101"),
                 85, "HIGH", "Same Model"),
    legacyResult(scrapedProduct("flipkart", "Zeb Thunder Headset Blue", "899", "ACCZ1"),
                 70, "MEDIUM", "Similar Product"),
    legacyResult(scrapedProduct("flipkart", "Blue Zeb Thunder Headset", "849", "ACCZ2"),
                 70, "MEDIUM", "Similar Product")>>

\* the lists of at most n different members of pool
ListsUpTo(pool, n) ==
  {list \in UNION {[1..k -> SetOf(pool)] : k \in 0..n} :
     \A i, j \in DOMAIN list : list[i] = list[j] => i = j}

\* the longest string handed to the Levenshtein distance
MaxStrLen == 3

\* the strings of at most n characters over a two-letter alphabet
RECURSIVE StringsUpTo(_)
StringsUpTo(n) ==
  IF n = 0 THEN {""}
  ELSE StringsUpTo(n - 1)
         \cup {str \o c : str \in StringsUpTo(n - 1), c \in {"a", "b"}}

\* the products the legacy matcher is called for: a headset and a case
LegacySources ==
  {scrapedProduct("amazon", "Sony WH-1000XM5 Wireless Headset Black", "26,990", "WH1000XM5"),
   scrapedProduct("amazon", "Sony WH-1000XM5 Carrying Case Black", "1,990", "WH1000XM5")}

\* candidates of the legacy matcher: a listing under the source's product
\* id, an accessory under the same id, an accessory whose title names a
\* device, and another model of the brand
LegacyPool ==
  <<scrapedProduct("flipkart", "Noise Cancelling Over Ear Black Edition", "27,490", "WH1000XM5"),
    scrapedProduct("flipkart", "Sony Carrying Case WH-1000XM5", "1,990", "WH1000XM5"),
    scrapedProduct("croma", "Sony Headset Stand with Speaker WH-1000XM5", "2,490", "WH1000XM5"),
    scrapedProduct("croma", "Sony WH-1000XM4 Wireless Headset Black", "19,990", "WH1000XM4")>>

\* scraped products: colour variants of one product on one site, at prices
\* of three and of four digits, and the same product on another site
ProductPool ==
  <<scrapedProduct("flipkart", "Boat Rockerz 450 Headset Black", "1,499", "ACCB1"),
    scrapedProduct("flipkart", "Boat Rockerz 450 Headset Blue", "999", "ACCB2"),
    scrapedProduct("flipkart", "Boat Rockerz 450 Headset Red", "1,299", "ACCB3"),
    scrapedProduct("croma", "Boat Rockerz 450 Headset Black", "1,199", "3101")>>

Started(fn, inputs) ==
  {[fn |-> fn, input |-> x, applied |-> <<>>] : x \in inputs}

\* what the next application is given: the input, then the last result
Operand == IF call.applied = <<>> THEN call.input ELSE call.applied[Len(call.applied)]

LibInit ==
  /\ page = 0
  /\ currentProduct = NoProduct
  /\ isComparing = FALSE
  /\ pc = "idle"
  /\ batchIndex = 0
  /\ validResults = <<>>
  /\ deduplicatedProducts = <<>>
  /\ scored = <<>>
  /\ allMatches = <<>>
  /\ invoked = <<>>
  /\ stageOut = NoStageOutput
  /\ displayed = NothingDisplayed
  /\ failed = {}
  /\ comparisons = 0
  /\ legacyLevels = <<>>
  /\ compareBtnDisabled = TRUE
  /\ awaiting = 0
  /\ events = <<>>
  /\ tabs = {}
  /\ searches = <<>>
  /\ call \in Started("normalizeBrand", BrandInputs)
              \cup Started("deduplicateColorVariants", ListsUpTo(VariantPool, MaxListLen))
              \cup Started("findMatches",
                           LegacySources \X ListsUpTo(LegacyPool, MaxListLen))
              \cup Started("deduplicateProducts", ListsUpTo(ProductPool, MaxListLen))
              \cup Started("levenshteinDistance",
                           StringsUpTo(MaxStrLen) \X StringsUpTo(MaxStrLen))

ApplyNormalizeBrand ==
  /\ call.fn = "normalizeBrand"
  /\ Len(call.applied) < MaxApplications
  /\ call' = [call EXCEPT !.applied = Append(@, normalizeBrand(Operand))]
  /\ UNCHANGED <<compareBtnDisabled, awaiting, events, tabs, searches,
                 legacyLevels, page, currentProduct, isComparing, pc, batchIndex,
                 validResults, deduplicatedProducts, scored, allMatches,
                 invoked, stageOut, displayed, failed, comparisons>>

ApplyDeduplicateColorVariants ==
  /\ call.fn = "deduplicateColorVariants"
  /\ Len(call.applied) < MaxApplications
  /\ call' = [call EXCEPT !.applied = Append(@, deduplicateColorVariants(Operand))]
  /\ UNCHANGED <<compareBtnDisabled, awaiting, events, tabs, searches,
                 legacyLevels, page, currentProduct, isComparing, pc, batchIndex,
                 validResults, deduplicatedProducts, scored, allMatches,
                 invoked, stageOut, displayed, failed, comparisons>>

\* a distance is a number and is not applied to its own result
ApplyLevenshteinDistance ==
  /\ call.fn = "levenshteinDistance"
  /\ call.applied = <<>>
  /\ call' = [call EXCEPT
                !.applied = <<levenshteinDistance(call.input[1], call.input[2])>>]
  /\ UNCHANGED <<compareBtnDisabled, awaiting, events, tabs, searches,
                 legacyLevels, page, currentProduct, isComparing, pc, batchIndex,
                 validResults, deduplicatedProducts, scored, allMatches,
                 invoked, stageOut, displayed, failed, comparisons>>

\* productMatcher.findMatches(source, candidates), called once
ApplyLegacyFindMatches ==
  /\ call.fn = "findMatches"
  /\ call.applied = <<>>
  /\ call' = [call EXCEPT
                !.applied = <<legacyFindMatches(call.input[1], call.input[2])>>]
  /\ UNCHANGED <<compareBtnDisabled, awaiting, events, tabs, searches,
                 legacyLevels, page, currentProduct, isComparing, pc, batchIndex,
                 validResults, deduplicatedProducts, scored, allMatches,
                 invoked, stageOut, displayed, failed, comparisons>>

\* deduplicateProducts(allProducts), called once
ApplyDeduplicateProducts ==
  /\ call.fn = "deduplicateProducts"
  /\ call.applied = <<>>
  /\ call' = [call EXCEPT !.applied = <<deduplicateProducts(call.input)>>]
  /\ UNCHANGED <<compareBtnDisabled, awaiting, events, tabs, searches,
                 legacyLevels, page, currentProduct, isComparing, pc, batchIndex,
                 validResults, deduplicatedProducts, scored, allMatches,
                 invoked, stageOut, displayed, failed, comparisons>>

LibNext ==
  \/ ApplyNormalizeBrand
  \/ ApplyDeduplicateColorVariants
  \/ ApplyLevenshteinDistance
  \/ ApplyLegacyFindMatches
  \/ ApplyDeduplicateProducts

LibSpec == LibInit /\ [][LibNext]_vars

(***************************************************************************)
(* The compare button on its own: clicks arrive at any time, and a handler *)
(* that started a comparison waits until startComparison returns or throws *)
(***************************************************************************)
\* how many clicks and ends of comparisons one run of the popup sees
MaxEvents == 4

\* a handler that returns early only when there is no product
clickStartsWithProduct(product, comparing) == product # NoProduct

\* the click handler goes past its early return
clickStarts(product, comparing) == product # NoProduct /\ ~comparing

\* the popup after its initialisation: the button is enabled when the page
\* gave a product
ClickInit ==
  /\ page \in 0..Len(PageTexts)
  /\ currentProduct = IF page = 0 THEN NoProduct ELSE Pages[page].product
  /\ compareBtnDisabled = (currentProduct = NoProduct)
  /\ isComparing = FALSE
  /\ awaiting = 0
  /\ events = <<>>
  /\ pc = "idle"
  /\ batchIndex = 0
  /\ validResults = <<>>
  /\ deduplicatedProducts = <<>>
  /\ scored = <<>>
  /\ allMatches = <<>>
  /\ invoked = <<>>
  /\ stageOut = NoStageOutput
  /\ displayed = NothingDisplayed
  /\ failed = {}
  /\ comparisons = 0
  /\ legacyLevels = <<>>
  /\ call = NoCall
  /\ tabs = {}
  /\ searches = <<>>

\* a click event: the handler returns at once, or sets isComparing, disables
\* the button and calls startComparison
Click ==
  /\ Len(events) < MaxEvents
  /\ IF clickStarts(currentProduct, isComparing)
       THEN /\ isComparing' = TRUE
            /\ compareBtnDisabled' = TRUE
            /\ awaiting' = awaiting + 1
            /\ events' = Append(events, "started")
       ELSE /\ events' = Append(events, "ignored")
            /\ UNCHANGED <<isComparing, compareBtnDisabled, awaiting>>
  /\ UNCHANGED <<page, currentProduct, pc, batchIndex, validResults,
                 deduplicatedProducts, scored, allMatches, invoked, stageOut,
                 displayed, failed, comparisons, legacyLevels, call, tabs,
                 searches>>

\* the finally block of a handler
handlerEnds(how) ==
  /\ awaiting > 0
  /\ Len(events) < MaxEvents
  /\ isComparing' = FALSE
  /\ compareBtnDisabled' = FALSE
  /\ awaiting' = awaiting - 1
  /\ events' = Append(events, how)
  /\ UNCHANGED <<page, currentProduct, pc, batchIndex, validResults,
                 deduplicatedProducts, scored, allMatches, invoked, stageOut,
                 displayed, failed, comparisons, legacyLevels, call, tabs,
                 searches>>

\* startComparison returns: the handler runs its finally block
ComparisonReturns == handlerEnds("returned")

\* startComparison throws: the handler shows the error, then runs its finally
\* block
ComparisonThrows == handlerEnds("threw")

ClickNext ==
  \/ Click
  \/ ComparisonReturns
  \/ ComparisonThrows

ClickSpec == ClickInit /\ [][ClickNext]_vars

(***************************************************************************)
(* searchSite on its own: several calls run together, each opening a       *)
(* background tab and asking its content script for the search results     *)
(***************************************************************************)
\* how many calls of searchSite run together
MaxSearches == 2

\* a call of searchSite that has not opened its tab yet
NewSearch == [at |-> "create", pageReady |-> "none", outcome |-> "none",
              result |-> "none"]

\* a call of searchSite that has returned
returned(search, outcome) ==
  [search EXCEPT !.at = "returned", !.outcome = outcome,
                 !.result = IF outcome = "products" THEN "products" ELSE "null"]

SearchInit ==
  /\ tabs = {}
  /\ searches = [s \in 1..MaxSearches |-> NewSearch]
  /\ page = 0
  /\ currentProduct = NoProduct
  /\ compareBtnDisabled = TRUE
  /\ isComparing = FALSE
  /\ awaiting = 0
  /\ events = <<>>
  /\ pc = "idle"
  /\ batchIndex = 0
  /\ validResults = <<>>
  /\ deduplicatedProducts = <<>>
  /\ scored = <<>>
  /\ allMatches = <<>>
  /\ invoked = <<>>
  /\ stageOut = NoStageOutput
  /\ displayed = NothingDisplayed
  /\ failed = {}
  /\ comparisons = 0
  /\ legacyLevels = <<>>
  /\ call = NoCall

\* chrome.tabs.create and the sleep after it: the tab of call s is open and
\* has an id, or the creation is rejected and the outer catch returns null
CreateTab(s) ==
  /\ searches[s].at = "create"
  /\ \E created \in BOOLEAN :
       IF created
         THEN /\ tabs' = tabs \cup {s}
              /\ searches' = [searches EXCEPT ![s].at = "inject"]
         ELSE /\ tabs' = tabs
              /\ searches' = [searches EXCEPT ![s] = returned(@, "createRejected")]

\* chrome.scripting.executeScript: when it fails the tab is removed and null
\* returned
InjectScript(s) ==
  /\ searches[s].at = "inject"
  /\ \E injected \in BOOLEAN :
       IF injected
         THEN /\ tabs' = tabs
              /\ searches' = [searches EXCEPT ![s].at = "ready"]
         ELSE /\ tabs' = tabs \ {s}
              /\ searches' = [searches EXCEPT ![s] = returned(@, "injectionFailed")]

\* the WAIT_FOR_PAGE_READY request under withTimeout: whatever comes of it,
\* the call goes on, after a sleep unless the page said it is ready
WaitForPageReady(s) ==
  /\ searches[s].at = "ready"
  /\ \E answer \in {"ready", "notReady", "timeout", "error"} :
       searches' = [searches EXCEPT ![s].at = "results", ![s].pageReady = answer]
  /\ tabs' = tabs

\* the GET_SEARCH_RESULTS request under withTimeout: an answer is followed by
\* chrome.tabs.remove, a timeout or an error goes to the outer catch
GetSearchResults(s) ==
  /\ searches[s].at = "results"
  /\ \E answer \in {"products", "empty", "timeout", "error"} :
       /\ tabs' = IF answer \in {"products", "empty"} THEN tabs \ {s} ELSE tabs
       /\ searches' = [searches EXCEPT ![s] = returned(@, answer)]

SearchStep(s) ==
  \/ CreateTab(s)
  \/ InjectScript(s)
  \/ WaitForPageReady(s)
  \/ GetSearchResults(s)

SearchNext ==
  /\ \E s \in DOMAIN searches : SearchStep(s)
  /\ UNCHANGED <<page, currentProduct, compareBtnDisabled, isComparing,
                 awaiting, events, pc, batchIndex, validResults,
                 deduplicatedProducts, scored, allMatches, invoked, stageOut,
                 displayed, failed, comparisons, legacyLevels, call>>

SearchSpec == SearchInit /\ [][SearchNext]_vars

(***************************************************************************)
(* Properties                                                              *)
(***************************************************************************)
Ran(stage) == stage \in SetOf(invoked)

\* the same scraped product, whatever match fields were added to it
SameProduct(a, b) == a.site = b.site /\ a.title = b.title /\ a.price = b.price

Contains(list, product) == \E i \in DOMAIN list : SameProduct(list[i], product)

NonIncreasingConfidence(list) ==
  \A i, j \in DOMAIN list : i < j => list[i].confidence >= list[j].confidence

\* phone against laptop, as the primary matcher classifies the two products
CrossCategory(source, candidate) ==
  \/ smartDetectCategory(source) = "phone" /\ smartDetectCategory(candidate) = "laptop"
  \/ smartDetectCategory(source) = "laptop" /\ smartDetectCategory(candidate) = "phone"

InvalidProduct(p) == p.numericPrice < 10 \/ Len(p.title) < 5

\* C1: the stages of one comparison run in the order primary, legacy,
\* similar; the legacy matcher is invoked only after the primary matcher
\* returned nothing, and the similar-product finder only after both did
C1_StageOrder ==
  [][invoked' # invoked =>
       \/ invoked' = <<>>
       \/ invoked = <<>> /\ invoked' = <<"primary">>
       \/ /\ invoked = <<"primary">>
          /\ invoked' = <<"primary", "legacy">>
          /\ stageOut.primary = <<>>
       \/ /\ invoked = <<"primary", "legacy">>
          /\ invoked' = <<"primary", "legacy", "similar">>
          /\ stageOut.primary = <<>>
          /\ stageOut.legacy = <<>>]_vars

C1_Witness ==
  /\ invoked = <<"primary", "legacy", "similar">>
  /\ stageOut.similar # <<>>
  /\ pc = "idle"

\* C2: the list handed to displayResults is in non-increasing confidence
C2_FinalListOrdered ==
  displayed.status = "results" => NonIncreasingConfidence(displayed.matches)

\* C3: for a phone source no laptop candidate, and for a laptop source no
\* phone candidate, is scored or returned by the primary matcher; a list of
\* such candidates only gives an empty primary result
C3_PrimaryCategoryFilter ==
  Ran("primary") =>
    /\ \A i \in DOMAIN scored : ~CrossCategory(currentProduct, scored[i])
    /\ \A i \in DOMAIN stageOut.primary :
         ~CrossCategory(currentProduct, stageOut.primary[i])
    /\ (\A i \in DOMAIN deduplicatedProducts :
          CrossCategory(currentProduct, deduplicatedProducts[i]))
         => stageOut.primary = <<>>

C3_Witness ==
  /\ Ran("primary")
  /\ smartDetectCategory(currentProduct) = "phone"
  /\ \E i \in DOMAIN deduplicatedProducts :
       CrossCategory(currentProduct, deduplicatedProducts[i])
  /\ stageOut.primary # <<>>

\* C4: the final list of a comparison never holds a phone for a laptop
\* source or a laptop for a phone source, whichever stage produced it
C4_FinalListCategory ==
  \A i \in DOMAIN displayed.matches :
    ~CrossCategory(currentProduct, displayed.matches[i])

PassesLegacyFilters(source, candidate) ==
  /\ ~InvalidProduct(candidate)
  /\ \/ isAccessory(source.title)
     \/ SomeIncluded(DeviceKeywords, ToLowerCase(candidate.title))
     \/ ~isAccessory(candidate.title)

C6_TotalInRange ==
  \A i \in DOMAIN scored :
    /\ QLeq(QInt(0), scored[i].scoring.total)
    /\ QLeq(scored[i].scoring.total, QInt(100))

Qualifies(match) == QLeq(QInt(70), match.scoring.total)

C9_BrandZeroExcluded ==
  \A i \in DOMAIN scored :
    scored[i].scoring.brandScore = QInt(0) =>
      /\ QLess(scored[i].scoring.total, QInt(70))
      /\ ~Contains(stageOut.primary, scored[i])

C11_FailureFallsBack ==
  /\ \A stage \in failed : stageOut[stage] = <<>>
  /\ "primary" \in failed => pc = "legacy" \/ Ran("legacy")
  /\ "legacy" \in failed => pc = "similar" \/ Ran("similar")
  /\ failed # {} =>
       \/ pc \in {"legacy", "similar", "dedup", "display"}
       \/ pc = "idle" /\ displayed.status # "none"

C11_Witness ==
  /\ failed = {"primary", "legacy", "similar"}
  /\ pc = "idle"
  /\ displayed.status = "no-results"

\* the place of a result's candidate in the list the matchers were given
PlaceOf(match) ==
  CHOOSE i \in DOMAIN deduplicatedProducts :
    SameProduct(deduplicatedProducts[i], match)

\* C12: in the result of the primary and of the legacy matcher, two results
\* of equal confidence are in the order of their candidates in the
\* candidate list
C12_TiesByInputOrder ==
  \A stage \in {"primary", "legacy"} :
    \A i, j \in DOMAIN stageOut[stage] :
      i < j /\ stageOut[stage][i].confidence = stageOut[stage][j].confidence =>
        PlaceOf(stageOut[stage][i]) <= PlaceOf(stageOut[stage][j])

\* C13: the primary matcher returns at most 8 results, the legacy matcher at
\* most 20 and the similar-product finder at most 15, however many
\* candidates they are given; neither deduplication returns more than it
\* was given
C13_ResultCounts ==
  /\ Len(stageOut.primary) <= 8
  /\ Len(stageOut.legacy) <= 20
  /\ Len(stageOut.similar) <= 15
  /\ Len(deduplicatedProducts) <= Len(collectProducts(validResults))
  /\ Len(allMatches) <= Len(stageOut.primary) + Len(stageOut.legacy)
                          + Len(stageOut.similar)
  /\ Len(displayed.matches) <= Len(allMatches)

C13_Witness ==
  /\ failed = {}
  /\ Len(deduplicatedProducts) > 20
  /\ Len(stageOut.legacy) = 20
  /\ pc = "idle"

\* two brand strings that differ at most in the case of their letters
SameUpToCase(a, b) == ToLowerCase(a) = ToLowerCase(b)

\* C14: normalizeBrand is idempotent, and brand strings that differ only in
\* letter case normalize to the same value
C14_NormalizeBrandIdempotent ==
  call.fn = "normalizeBrand" /\ call.applied # <<>> =>
    /\ \A i \in DOMAIN call.applied : call.applied[i] = call.applied[1]
    /\ \A other \in BrandInputs :
         SameUpToCase(other, call.input) => normalizeBrand(other) = call.applied[1]

\* the same on the brand strings whose letters are all ASCII
C14_OnAsciiBrands ==
  call.fn = "normalizeBrand" /\ call.input \notin {"ßeta", "ßETA"} =>
    C14_NormalizeBrandIdempotent

\* C15: deduplicating a deduplicated list of match results changes nothing:
\* the same elements in the same order
C15_DedupIdempotent ==
  call.fn = "deduplicateColorVariants" =>
    \A i \in DOMAIN call.applied : call.applied[i] = call.applied[1]

\* a list with three colour variants of one product has been deduplicated twice
C15_Witness ==
  /\ call.fn = "deduplicateColorVariants"
  /\ Len(call.applied) = 2
  /\ Len(call.input) = 3
  /\ Len(call.applied[1]) = 1

\* the group of a match result: site, brand, title without colour words
VariantGroup(match) ==
  <<match.site, match.brand,
    CollapseSpaces(StripWords(ToLowerCase(match.title), ColorKeywords, TRUE))>>

RECURSIVE EditDistance(_, _, _, _)
EditDistance(a, b, i, j) ==
  IF i = 0 THEN j
  ELSE IF j = 0 THEN i
  ELSE Min2(Min2(EditDistance(a, b, i - 1, j) + 1, EditDistance(a, b, i, j - 1) + 1),
            EditDistance(a, b, i - 1, j - 1)
              + (IF CharAt(a, i) = CharAt(b, j) THEN 0 ELSE 1))

\* C17: the Levenshtein distance is symmetric, zero on equal strings, and
\* equal to the edit distance with unit costs
C17_LevenshteinIsEditDistance ==
  call.fn = "levenshteinDistance" /\ call.applied # <<>> =>
    LET a == call.input[1]
        b == call.input[2]
    IN /\ call.applied[1] = levenshteinDistance(b, a)
       /\ a = b => call.applied[1] = 0
       /\ call.applied[1] = EditDistance(a, b, Len(a), Len(b))

\* the distance of two different strings of different lengths, where a
\* substitution and a deletion are needed, has been computed
C17_Witness ==
  /\ call.fn = "levenshteinDistance"
  /\ call.input = <<"aab", "ba">>
  /\ call.applied = <<2>>

\* the matches displayResults renders as cards: displayMatches.slice(0, 10)
DisplayedCards == Take(displayed.matches, 10)

\* C18: the first displayed match, the one the statistics call the best
\* deal, has the lowest numericPrice of the displayed matches
C18_BestPriceFirst ==
  displayed.status = "results" =>
    \A k \in DOMAIN DisplayedCards :
      displayed.matches[1].numericPrice <= DisplayedCards[k].numericPrice

\* C19: when Level 1 of the legacy matcher finds an exact-productId match, no
\* further level runs and every result of the call is an EXACT_ID match of
\* confidence 100
C19_Level1EarlyExit ==
  \A k \in DOMAIN legacyLevels :
    legacyLevels[k].level = 1 /\ legacyLevels[k].found > 0 =>
      /\ legacyLevels = <<legacyLevels[k]>>
      /\ Len(stageOut.legacy) <= legacyLevels[k].found
      /\ \A i \in DOMAIN stageOut.legacy :
           /\ stageOut.legacy[i].matchLevel = "EXACT_ID"
           /\ stageOut.legacy[i].confidence = 100
           /\ stageOut.legacy[i].productId = currentProduct.productId

\* Level 1 found a match among candidates of which another has a different
\* productId, and the matcher returned the exact matches
C19_Witness ==
  /\ "legacy" \notin failed
  /\ Len(legacyLevels) = 1
  /\ legacyLevels[1].level = 1
  /\ Len(stageOut.legacy) = legacyLevels[1].found
  /\ Len(stageOut.legacy) > 0
  /\ \E i \in DOMAIN deduplicatedProducts :
       deduplicatedProducts[i].productId # currentProduct.productId

C20_WitnessBelowFive ==
  /\ "legacy" \notin failed
  /\ \E k \in DOMAIN legacyLevels :
       /\ legacyLevels[k].level = 2
       /\ legacyLevels[k].found \in 1..4
       /\ Len(legacyLevels) > k
       /\ legacyLevels[k + 1].level = 3

\* the results of the legacy matcher that have the given match levels
LegacyResultsOf(levels) ==
  LET among(m) == m.matchLevel \in levels
  IN SelectSeq(stageOut.legacy, among)

\* how many matches the given levels of the legacy matcher accumulated
FoundBy(levels) ==
  LET ran == {k \in DOMAIN legacyLevels : legacyLevels[k].level \in levels}
      RECURSIVE Sum(_)
      Sum(set) == IF set = {} THEN 0
                  ELSE LET k == CHOOSE x \in set : TRUE
                       IN legacyLevels[k].found + Sum(set \ {k})
  IN Sum(ran)

LevelRan(level) == \E k \in DOMAIN legacyLevels : legacyLevels[k].level = level

\* C21: Level 4 is attempted only when Levels 2 and 3 accumulated fewer than
\* 3 matches: a result with a LOW match has fewer than 3 matches of Levels 2
\* and 3, and after 3 or more matches of Levels 2 and 3 there is no LOW match
C21_FuzzyOnlyBelowThree ==
  /\ LevelRan(4) => FoundBy({2, 3}) < 3
  /\ Len(LegacyResultsOf({"LOW"})) > 0 =>
       /\ LevelRan(4)
       /\ Len(LegacyResultsOf({"EXACT", "HIGH", "MEDIUM"})) < 3
  /\ LevelRan(3) /\ FoundBy({2, 3}) >= 3 => Len(LegacyResultsOf({"LOW"})) = 0

\* Level 4 ran after Levels 2 and 3 had found a match or two, and a LOW match
\* is among the results
C21_Witness ==
  /\ "legacy" \notin failed
  /\ LevelRan(4)
  /\ FoundBy({2, 3}) \in 1..2
  /\ Len(LegacyResultsOf({"LOW"})) > 0

\* Levels 2 and 3 found 3 matches or more, next to candidates they did not
\* accept, and Level 4 did not run
C21_WitnessSkipped ==
  /\ "legacy" \notin failed
  /\ LevelRan(3)
  /\ ~LevelRan(4)
  /\ FoundBy({2, 3}) >= 3

\* the candidates the levels of the legacy matcher are given
LegacyFiltered ==
  LET valid(p) == p.numericPrice >= 10 /\ Len(p.title) >= 5
  IN filterAccessories(currentProduct, SelectSeq(deduplicatedProducts, valid))

\* the candidate has a brand match or a model match with the source
BrandOrModelMatch(candidate) ==
  LET sourceAttrs == extractAttributes(currentProduct)
      candAttrs == extractAttributes(candidate)
  IN \/ compareBrands(sourceAttrs, candAttrs)
     \/ candAttrs.model # "" /\ compareModels(sourceAttrs.model, candAttrs.model)

\* the legacy matcher returned a MEDIUM result for the candidate
HasMediumResult(candidate) ==
  \E i \in DOMAIN stageOut.legacy :
    /\ stageOut.legacy[i].matchLevel = "MEDIUM"
    /\ SameProduct(stageOut.legacy[i], candidate)

\* C22: when Level 3 runs, a filtered candidate gets a MEDIUM result exactly
\* when it has a brand match or a model match with the source, whether or not
\* the source title has a model (the results are looked at when the limit of
\* the final list has not cut any off)
C22_Level3BrandOrModel ==
  LevelRan(3) /\ "legacy" \notin failed /\ Len(stageOut.legacy) < LEGACY_LIMIT =>
    \A i \in DOMAIN LegacyFiltered :
      HasMediumResult(LegacyFiltered[i]) <=> BrandOrModelMatch(LegacyFiltered[i])

\* the same when a model can be extracted from the source title
C22_WithSourceModel ==
  LevelRan(3) /\ extractAttributes(currentProduct).model # "" => C22_Level3BrandOrModel

\* the candidate's price is between 0.7 and 1.3 times the source's
RatioInBand(match) ==
  /\ currentProduct.numericPrice > 0
  /\ 10 * match.numericPrice >= 7 * currentProduct.numericPrice
  /\ 10 * match.numericPrice <= 13 * currentProduct.numericPrice

\* the confidence the legacy matcher's level allows for a result
ConfidenceOfLevel(match) ==
  LET sourceStorage == extractStorage(currentProduct.title)
      storage == extractStorage(match.title)
      medium == Min2(84, Max2(70, QRound(QAdd(QInt(70), QMul(match.similarity, QInt(14))))))
  IN CASE match.matchLevel = "EXACT_ID" -> match.confidence = 100
       [] match.matchLevel \in {"EXACT", "HIGH"} ->
            /\ match.confidence =
                 IF sourceStorage # "" /\ storage # ""
                   THEN IF sourceStorage = storage THEN 95 ELSE 80
                   ELSE 85
            /\ match.matchLevel = "EXACT" <=> match.confidence = 95
       [] match.matchLevel = "MEDIUM" ->
            /\ match.confidence \in 70..95
            /\ match.confidence = medium + (IF RatioInBand(match) THEN 10 ELSE 0)
       [] match.matchLevel = "LOW" -> match.confidence \in 25..80
       [] OTHER -> FALSE

C23_WitnessUnboosted ==
  \E i \in DOMAIN stageOut.legacy :
    /\ stageOut.legacy[i].matchLevel = "MEDIUM"
    /\ ~RatioInBand(stageOut.legacy[i])

\* the title contains one of the words
HasWord(title, words) ==
  \E k \in DOMAIN words : Includes(ToLowerCase(title), words[k])

\* C24: for a source whose title has no accessory keyword, no result of the
\* legacy matcher, of whatever level, has a title with an accessory keyword
\* and no device keyword; for a source whose title has an accessory keyword,
\* the accessory filter removes no candidate
C24_AccessoryFilter ==
  call.fn = "findMatches" /\ call.applied # <<>> =>
    LET source == call.input[1]
        candidates == call.input[2]
        results == call.applied[1].matches
    IN IF HasWord(source.title, ACCESSORY_KEYWORDS)
         THEN filterAccessories(source, candidates) = candidates
         ELSE \A i \in DOMAIN results :
                HasWord(results[i].title, ACCESSORY_KEYWORDS) =>
                  HasWord(results[i].title, DeviceKeywords)

\* the matcher was called for the headset with, among the candidates, the
\* case under the headset's product id and the stand that names a device:
\* Level 1 returned the stand and not the case
C24_Witness ==
  /\ call.fn = "findMatches"
  /\ call.applied # <<>>
  /\ ~HasWord(call.input[1].title, ACCESSORY_KEYWORDS)
  /\ \E i \in DOMAIN call.input[2] :
       /\ HasWord(call.input[2][i].title, ACCESSORY_KEYWORDS)
       /\ ~HasWord(call.input[2][i].title, DeviceKeywords)
       /\ call.input[2][i].productId = call.input[1].productId
  /\ \E i \in DOMAIN call.applied[1].matches :
       /\ call.applied[1].matches[i].matchLevel = "EXACT_ID"
       /\ HasWord(call.applied[1].matches[i].title, ACCESSORY_KEYWORDS)

\* the matcher was called for the case and returned the other case
C24_WitnessAccessorySource ==
  /\ call.fn = "findMatches"
  /\ call.applied # <<>>
  /\ HasWord(call.input[1].title, ACCESSORY_KEYWORDS)
  /\ \E i \in DOMAIN call.applied[1].matches :
       /\ HasWord(call.applied[1].matches[i].title, ACCESSORY_KEYWORDS)
       /\ ~HasWord(call.applied[1].matches[i].title, DeviceKeywords)

\* the results in the list that the primary matcher built (they alone carry
\* the scoring of the candidate)
FromPrimary(matches) ==
  {i \in DOMAIN matches : "scoring" \in DOMAIN matches[i]}

\* the results in the list that the similar-product finder built
FromSimilar(matches) ==
  {i \in DOMAIN matches : matches[i].matchLevel = "SIMILAR"}

\* the list holds the results of one stage only
OfOneStage(matches) ==
  /\ FromSimilar(matches) \in {{}, DOMAIN matches}
  /\ FromPrimary(matches) \in {{}, DOMAIN matches}
  /\ FromSimilar(matches) \cap FromPrimary(matches) = {}
  /\ \A i \in FromSimilar(matches) : matches[i].confidence >= 30

\* C25: the list of a comparison never mixes stages: its results are all
\* SIMILAR, each of confidence 30 or more, or none is, and results of the
\* primary matcher are never in one list with results of the legacy matcher
C25_OneStageOnly ==
  /\ OfOneStage(allMatches)
  /\ OfOneStage(displayed.matches)
  /\ Cardinality({stage \in {"primary", "legacy", "similar"} : stageOut[stage] # <<>>}) <= 1

\* a comparison in which both matchers returned nothing has displayed
\* several results of the similar-product finder
C25_Witness ==
  /\ pc = "idle"
  /\ failed = {}
  /\ invoked = <<"primary", "legacy", "similar">>
  /\ Len(displayed.matches) >= 2
  /\ FromSimilar(displayed.matches) = DOMAIN displayed.matches

\* the group of a scraped product: its site and its normalised key
ProductGroup(product) == <<product.site, normalizeProductKey(product)>>

\* C26: of every group of products of one site with one normalised key,
\* deduplicateProducts keeps one product, and no product of the group is
\* cheaper than it
C26_KeepsCheapestProduct ==
  call.fn = "deduplicateProducts" /\ call.applied # <<>> =>
    LET input == call.input
        output == call.applied[1]
        groupIn == AsArray([i \in DOMAIN input |-> ProductGroup(input[i])])
        groupOut == AsArray([o \in DOMAIN output |-> ProductGroup(output[o])])
    IN \A i \in DOMAIN input :
         /\ Cardinality({o \in DOMAIN output : groupOut[o] = groupIn[i]}) = 1
         /\ \A o \in DOMAIN output :
              groupOut[o] = groupIn[i] => output[o].numericPrice <= input[i].numericPrice

\* the same for the groups whose price texts have the same number of characters
C26_AmongPricesOfOneLength ==
  call.fn = "deduplicateProducts" /\ call.applied # <<>>
    /\ (\A i, j \in DOMAIN call.input : Len(call.input[i].price) = Len(call.input[j].price))
    => C26_KeepsCheapestProduct

\* C27: the legacy matcher returns each candidate at most once: no two of
\* its results are the same candidate
C27_CandidateOnce ==
  \A i, j \in DOMAIN stageOut.legacy :
    SameProduct(stageOut.legacy[i], stageOut.legacy[j]) => i = j

\* C28: in every result of the primary matcher the integer confidence and the
\* level agree: EXACT exactly from 90, HIGH exactly from 80 to 89, MEDIUM
\* exactly from 70 to 79, and the badge names the level
C28_ConfidenceAgreesWithLevel ==
  \A i \in DOMAIN stageOut.primary :
    LET confidence == stageOut.primary[i].confidence
        level == stageOut.primary[i].matchLevel
    IN /\ level = "EXACT" <=> confidence >= 90
       /\ level = "HIGH" <=> confidence \in 80..89
       /\ level = "MEDIUM" <=> confidence \in 70..79
       /\ stageOut.primary[i].matchBadge = level

\* C29: at most one comparison is in progress at any time: a click while
\* isComparing is true starts nothing, and when a comparison has ended, by
\* returning or by throwing, isComparing is false and the button is enabled,
\* and the click that follows starts a new comparison
C29_OneComparisonAtATime ==
  /\ awaiting <= 1
  /\ isComparing <=> awaiting = 1
  /\ \A i \in DOMAIN events :
       /\ events[i] = "started" /\ i < Len(events) => events[i + 1] # "started"
       /\ events[i] \in {"returned", "threw"} =>
            IF i < Len(events) THEN events[i + 1] = "started"
            ELSE ~isComparing /\ ~compareBtnDisabled

C29_Witness ==
  events = <<"started", "ignored", "threw", "started">>

C29_WitnessReturned ==
  events = <<"started", "returned", "started", "ignored">>

\* C30: a call of searchSite that has returned has left no tab open
C30_NoTabLeftOpen ==
  \A s \in DOMAIN searches : searches[s].at = "returned" => s \notin tabs

\* C30 on the other paths: a tab is left open only by a call whose
\* GET_SEARCH_RESULTS request timed out or failed
C30_LeftOnlyByFailedRequest ==
  \A s \in DOMAIN searches :
    searches[s].at = "returned" /\ s \in tabs =>
      searches[s].outcome \in {"timeout", "error"}

====
